---- MODULE Spec2Model ----
(***************************************************************************)
(* Outbreak detection engine of the hemogram monitoring system             *)
(* (application/src/services/analysis.py and geospatial.py, as documented  *)
(* in application/DETECCAO_SURTOS.md, second revision: geographic          *)
(* clustering).                                                            *)
(*                                                                         *)
(* Units.  Coordinates are integers in hundredths of a degree, so the      *)
(* documented grid of 0.1 degree is 10 units.  Timestamps are integers in  *)
(* hours.  Percentages are exact rationals <<numerator, denominator>>      *)
(* with a positive denominator; for the counts of this model the float     *)
(* comparisons of the code against 40.0 and 20.0 agree with the exact      *)
(* ones.  A squared distance stands for the distance: x <= y iff           *)
(* x^2 <= y^2 for the non-negative values compared.  An optional field is  *)
(* <<>> when absent (or unparseable) and <<v>> when present.               *)
(*                                                                         *)
(* The clients of the engine follow: the foreground polling, the urgent    *)
(* alerts and the realtime monitoring of the mobile app (locationService,  *)
(* notificationService, realtimeService and socketService under            *)
(* mobile/src/services) and the WebSocketClient and polling timer of the   *)
(* web page (application/static/js).  Their async functions are processes  *)
(* that take one step per await.                                           *)
(***************************************************************************)
EXTENDS Integers, Sequences, FiniteSets, TLC

VARIABLES
    window,     \* the observation store: a sequence of observations
    now,        \* the clock, in hours
    cycle,      \* the last detection cycle: its arguments and its products
    published,  \* the OutbreakState published by the last cycle, or NoOutbreak
    previous,   \* the OutbreakState published by the cycle before it
    memo,       \* one earlier detect call, kept for comparison: args and result
    tasks,      \* a cycle whose statistics are computed by concurrent tasks
    config,     \* the configuration last handed to the loader, and its fate
    device,     \* a mobile device: last location, last response, pushes
    locationService,     \* mobile app: foreground polling (locationService.ts)
    notificationService, \* mobile app: urgent alerts (notificationService.ts)
    realtimeService,     \* mobile app: realtime monitoring (realtimeService.ts)
    webSocketClient,     \* web client: WebSocketClient and the polling timer
    socketService        \* mobile app: the Socket.IO client (socketService.ts)

vars == <<window, now, cycle, published, previous, memo, tasks, config, device,
          locationService, notificationService, realtimeService,
          webSocketClient, socketService>>

engineVars ==
    <<window, now, cycle, published, previous, memo, tasks, config, device>>

clientVars ==
    <<locationService, notificationService, realtimeService, webSocketClient,
      socketService>>

(***************************************************************************)
(* Optional values and rationals                                           *)
(***************************************************************************)
NULL == <<>>

Some(v) == <<v>>

Present(f) == Len(f) = 1

Val(f) == f[1]

Abs(x) == IF x >= 0 THEN x ELSE -x

RECURSIVE GCD(_, _)
GCD(a, b) == IF b = 0 THEN a ELSE GCD(b, a % b)

\* a/b in lowest terms, b > 0
Rat(a, b) ==
    LET g == GCD(Abs(a), b)
    IN  <<a \div g, b \div g>>

\* p < q for rationals in lowest terms
RatLT(p, q) ==
    LET g == GCD(p[2], q[2])
    IN  p[1] * (q[2] \div g) < q[1] * (p[2] \div g)

RatLE(p, q) == ~RatLT(q, p)

\* p * q and p / q, reduced crosswise before multiplying (q > 0 for RatDiv)
RatMul(p, q) ==
    LET g == GCD(Abs(p[1]), q[2])
        h == GCD(Abs(q[1]), p[2])
    IN  <<(p[1] \div g) * (q[1] \div h), (p[2] \div h) * (q[2] \div g)>>

RatDiv(p, q) == RatMul(p, <<q[2], q[1]>>)

(***************************************************************************)
(* Parameters of the engine                                                *)
(***************************************************************************)
GRID_SIZE == 10                 \* 0.1 degree
GRID_SIZE_LARGE == 20           \* 0.2 degree, the documented rural grid
MIN_VOLUME == 20
SEVERITY_THRESHOLD == 40
GROWTH_THRESHOLD == 20
ELEVATED_THRESHOLD == 11000
HOURS_24 == 24
HOURS_48 == 48
HOURS_7D == 168
METRES_PER_DEGREE == 111000       \* 1 degree = 111 km = 111.000 m
UNITS_PER_DEGREE == 100           \* coordinate units of this model per degree
MARGIN_TENTHS == 13               \* the safety margin 1.3

DefaultConfig ==
    [cell_size |-> GRID_SIZE, min_volume |-> MIN_VOLUME,
     severity |-> SEVERITY_THRESHOLD, growth |-> GROWTH_THRESHOLD]

RuralConfig == [DefaultConfig EXCEPT !.cell_size = GRID_SIZE_LARGE]

NoOutbreak == [outbreak |-> FALSE]

(***************************************************************************)
(* Step 1: the analysis set                                                *)
(***************************************************************************)
HasCoordinates(o) == Present(o.lat) /\ Present(o.lng)

\* a slip: the instant exactly 7 days back left out
InWindowStrict(o, t) == Present(o.at) /\ Val(o.at) > t - HOURS_7D

\* received_at >= since_7d
InWindow(o, t) == Present(o.at) /\ Val(o.at) >= t - HOURS_7D

\* a slip: one malformed observation makes the cycle give up on the window
FilterOrNothing(W, t) ==
    IF \E i \in 1..Len(W) :
           ~(Present(W[i].lat) /\ Present(W[i].lng) /\ Present(W[i].at))
    THEN <<>>
    ELSE SelectSeq(W, LAMBDA o : InWindow(o, t))

\* a slip: the observations older than 7 days left in the analysis set
FilterCoordinatesOnly(W, t) ==
    SelectSeq(W, LAMBDA o : HasCoordinates(o) /\ Present(o.at))

Filter(W, t) == SelectSeq(W, LAMBDA o : HasCoordinates(o) /\ InWindow(o, t))

(***************************************************************************)
(* Step 2: geographic clustering                                           *)
(***************************************************************************)
\* Python's int(a / b): truncation towards zero
TruncDiv(a, b) == IF a >= 0 THEN a \div b ELSE -((-a) \div b)

GridCell(o, size) == <<TruncDiv(Val(o.lat), size), TruncDiv(Val(o.lng), size)>>

OccupiedCells(obs, size) == {GridCell(obs[i], size) : i \in 1..Len(obs)}

\* 4-connectivity: the diagonal neighbours forgotten
AdjacentNoDiagonal(c, d) ==
    /\ c # d
    /\ Abs(c[1] - d[1]) + Abs(c[2] - d[2]) = 1

\* 8-connectivity, excluding the cell itself
Adjacent(c, d) ==
    /\ c # d
    /\ Abs(c[1] - d[1]) <= 1
    /\ Abs(c[2] - d[2]) <= 1

\* a slip: one pass over the neighbours of the seed, chains not followed
ComponentOnePass(S, occupied) ==
    S \cup {c \in occupied : \E d \in S : Adjacent(c, d)}

\* the connected component of the occupied cells that holds the cells S
RECURSIVE Component(_, _)
Component(S, occupied) ==
    LET grown == S \cup {c \in occupied : \E d \in S : Adjacent(c, d)}
    IN  IF grown = S THEN S ELSE Component(grown, occupied)

\* the components in discovery order: by the first observation of each
RECURSIVE Components(_, _, _, _, _)
Components(obs, size, occupied, i, acc) ==
    IF i > Len(obs) THEN acc
    ELSE LET c == GridCell(obs[i], size)
         IN  IF \E k \in 1..Len(acc) : c \in acc[k]
             THEN Components(obs, size, occupied, i + 1, acc)
             ELSE Components(obs, size, occupied, i + 1,
                     Append(acc, Component({c}, occupied)))

\* the observations bucketed in the cells of one component, in input order
CellMembers(obs, size, cells) ==
    SelectSeq(obs, LAMBDA o : GridCell(o, size) \in cells)

Cluster(obs, size) ==
    LET comps == Components(obs, size, OccupiedCells(obs, size), 1, <<>>)
    IN  [k \in 1..Len(comps) |-> CellMembers(obs, size, comps[k])]

(***************************************************************************)
(* Step 3: statistics of one cluster                                       *)
(***************************************************************************)
\* sum(1 for obs in ... if ...) is the length of the selection

\* a slip: a count of exactly the threshold not taken as elevated
IsElevatedAbove(o) == Present(o.leuk) /\ Val(o.leuk) > ELEVATED_THRESHOLD

IsElevated(o) == Present(o.leuk) /\ Val(o.leuk) >= ELEVATED_THRESHOLD

\* a slip: the boundary instant now - 24h counted in both windows
InPrev24Inclusive(o, t) ==
    /\ t - HOURS_48 <= Val(o.at)
    /\ Val(o.at) <= t - HOURS_24

InLast24(o, t) == Val(o.at) >= t - HOURS_24

InPrev24(o, t) ==
    /\ t - HOURS_48 <= Val(o.at)
    /\ Val(o.at) < t - HOURS_24

\* a slip: the share of the cases that are not elevated
PctNotElevated(elevated, total) ==
    IF total > 0 THEN Rat(100 * (total - elevated), total) ELSE Rat(0, 1)

PctElevated(elevated, total) ==
    IF total > 0 THEN Rat(100 * elevated, total) ELSE Rat(0, 1)

\* growth when neither window holds a case
GrowthNoCases == Rat(0, 1)

\* a slip: the sudden-onset case treated as no growth
GrowthPctNoOnset(last_24, prev_24) ==
    IF prev_24 > 0 THEN Rat(100 * (last_24 - prev_24), prev_24)
    ELSE GrowthNoCases

GrowthPct(last_24, prev_24) ==
    IF prev_24 > 0 THEN Rat(100 * (last_24 - prev_24), prev_24)
    ELSE IF last_24 > 0 THEN Rat(100, 1)
    ELSE GrowthNoCases

compute_statistics(cluster, t) ==
    LET obs_7d == SelectSeq(cluster, LAMBDA o : InWindow(o, t))
        total == Len(obs_7d)
        elevated == Len(SelectSeq(obs_7d, IsElevated))
        last_24 == Len(SelectSeq(obs_7d, LAMBDA o : InLast24(o, t)))
        prev_24 == Len(SelectSeq(obs_7d, LAMBDA o : InPrev24(o, t)))
    IN  [total_7d |-> total,
         elevated_7d |-> elevated,
         pct_elevated |-> PctElevated(elevated, total),
         count_last_24h |-> last_24,
         count_prev_24h |-> prev_24,
         growth_pct |-> GrowthPct(last_24, prev_24)]

(***************************************************************************)
(* Step 4: the decision per cluster and the choice among clusters          *)
(***************************************************************************)
\* a slip: the severity threshold taken inclusively
QualifiesInclusive(cluster, s, cfg) ==
    /\ Len(cluster) >= cfg.min_volume
    /\ RatLE(Rat(cfg.severity, 1), s.pct_elevated)
    /\ RatLT(Rat(cfg.growth, 1), s.growth_pct)

Qualifies(cluster, s, cfg) ==
    /\ Len(cluster) >= cfg.min_volume
    /\ RatLT(Rat(cfg.severity, 1), s.pct_elevated)
    /\ RatLT(Rat(cfg.growth, 1), s.growth_pct)

\* a slip: the least severe cluster preferred
LowerSeverity(s1, s2) == RatLT(s1.pct_elevated, s2.pct_elevated)

\* s1 has the higher percentage of elevated cases
HigherSeverity(s1, s2) == RatLT(s2.pct_elevated, s1.pct_elevated)

\* s1 is strictly preferred to s2: higher pct_elevated, then higher total_7d
MoreSevere(s1, s2) ==
    \/ HigherSeverity(s1, s2)
    \/ /\ ~HigherSeverity(s2, s1)
       /\ s1.total_7d > s2.total_7d

\* a slip: on a full tie the result merged last is kept
PreferLatest(stats, j, k) ==
    IF MoreSevere(stats[j], stats[k]) THEN j ELSE k

\* of the result kept so far, j, and a further result, k: the preferred
\* one, and on a full tie the cluster discovered first
Prefer(stats, j, k) ==
    IF MoreSevere(stats[k], stats[j]) THEN k
    ELSE IF MoreSevere(stats[j], stats[k]) THEN j
    ELSE IF j < k THEN j ELSE k

\* the index of the selected cluster among the qualifying ones Q, 0 for none
RECURSIVE Select(_, _, _, _)
Select(stats, Q, k, best) ==
    IF k > Len(stats) THEN best
    ELSE IF k \notin Q THEN Select(stats, Q, k + 1, best)
    ELSE IF best = 0 THEN Select(stats, Q, k + 1, k)
    ELSE Select(stats, Q, k + 1, Prefer(stats, best, k))

QualifyingClusters(clusters, stats, cfg) ==
    {k \in 1..Len(clusters) : Qualifies(clusters[k], stats[k], cfg)}

\* a slip: the first cluster taken as the choice to beat, qualifying or not
classify_from_first(clusters, stats, cfg) ==
    Select(stats, QualifyingClusters(clusters, stats, cfg), 1,
           IF Len(clusters) > 0 THEN 1 ELSE 0)

classify(clusters, stats, cfg) ==
    Select(stats, QualifyingClusters(clusters, stats, cfg), 1, 0)

(***************************************************************************)
(* Step 5: the boundary of the selected cluster                            *)
(*                                                                         *)
(* A length is kept as its square, and the square as a product             *)
(* [d2, f2]: d2 the squared distance in coordinate units, f2 the squared   *)
(* conversion to metres (and margin).                                      *)
(***************************************************************************)
RECURSIVE SumLat(_, _)
SumLat(obs, i) == IF i > Len(obs) THEN 0 ELSE Val(obs[i].lat) + SumLat(obs, i + 1)

RECURSIVE SumLng(_, _)
SumLng(obs, i) == IF i > Len(obs) THEN 0 ELSE Val(obs[i].lng) + SumLng(obs, i + 1)

compute_centroid(obs) ==
    [lat |-> Rat(SumLat(obs, 1), Len(obs)), lng |-> Rat(SumLng(obs, 1), Len(obs))]

\* the squared euclidean distance, in coordinate units, from (lat, lng) to c
Distance2(lat, lng, c) ==
    LET g == GCD(c.lat[2], c.lng[2])
        D == (c.lat[2] \div g) * c.lng[2]            \* the common denominator
        a == lat * D - c.lat[1] * (D \div c.lat[2])
        b == lng * D - c.lng[1] * (D \div c.lng[2])
    IN  Rat(a * a + b * b, D * D)

\* max(todas_distancias), squared
MaxDistance2(obs, c) ==
    LET all == {Distance2(Val(obs[i].lat), Val(obs[i].lng), c) : i \in 1..Len(obs)}
    IN  CHOOSE d \in all : \A e \in all : RatLE(e, d)

\* coordinate units to metres (degrees x 111.000), squared
ToMetres2 ==
    LET m == Rat(METRES_PER_DEGREE, UNITS_PER_DEGREE)
    IN  RatMul(m, m)

Margin2 == Rat(MARGIN_TENTHS * MARGIN_TENTHS, 100)

\* a slip: the radius converted to kilometres (x 111) instead of metres
compute_radius_km(obs, c) ==
    LET km == Rat(METRES_PER_DEGREE \div 1000, UNITS_PER_DEGREE)
    IN  [d2 |-> MaxDistance2(obs, c), f2 |-> RatMul(RatMul(km, km), Margin2)]

compute_radius(obs, c) ==
    [d2 |-> MaxDistance2(obs, c), f2 |-> RatMul(ToMetres2, Margin2)]

compute_boundary(obs) ==
    LET c == compute_centroid(obs)
    IN  [centroid |-> c, radius_meters |-> compute_radius(obs, c)]

\* x <= y for two lengths kept as products
LengthLE(x, y) ==
    IF x.d2[1] = 0 THEN TRUE
    ELSE IF y.d2[1] = 0 THEN FALSE
    ELSE RatLE(RatDiv(x.f2, y.f2), RatDiv(y.d2, x.d2))

is_within(lat, lng, centroid, radius_meters) ==
    LengthLE([d2 |-> Distance2(lat, lng, centroid), f2 |-> ToMetres2], radius_meters)

(***************************************************************************)
(* The orchestrator: one detection cycle, from scratch                     *)
(***************************************************************************)
OutbreakState(cluster, s, cfg) ==
    LET b == compute_boundary(cluster)
    IN  [outbreak |-> TRUE,
         cluster_id |-> GridCell(cluster[1], cfg.cell_size),
         centroid |-> b.centroid,
         radius_meters |-> b.radius_meters,
         point_count |-> Len(cluster),
         pct_elevated |-> s.pct_elevated,
         growth_pct |-> s.growth_pct]

\* the record of a cycle: its arguments, its products and its result
CycleRecord(W, t, cfg, filtered, clusters, stats, winner) ==
    [args |-> [W |-> W, t |-> t, cfg |-> cfg],
     filtered |-> filtered,
     clusters |-> clusters,
     stats |-> stats,
     qualifying |-> QualifyingClusters(clusters, stats, cfg),
     winner |-> winner,
     state |-> IF winner = 0 THEN NoOutbreak
               ELSE OutbreakState(clusters[winner], stats[winner], cfg)]

\* a slip: the statistics of each cluster taken over the whole analysis set
DetectCycleGlobalStatistics(W, t, cfg) ==
    LET filtered == Filter(W, t)
        clusters == Cluster(filtered, cfg.cell_size)
        stats == [k \in 1..Len(clusters) |-> compute_statistics(filtered, t)]
    IN  CycleRecord(W, t, cfg, filtered, clusters, stats,
                    classify(clusters, stats, cfg))

DetectCycle(W, t, cfg) ==
    LET filtered == Filter(W, t)
        clusters == Cluster(filtered, cfg.cell_size)
        stats == [k \in 1..Len(clusters) |-> compute_statistics(clusters[k], t)]
    IN  CycleRecord(W, t, cfg, filtered, clusters, stats,
                    classify(clusters, stats, cfg))

detect(W, t, cfg) == DetectCycle(W, t, cfg).state

\* a slip: the previous outbreak kept while no cluster qualifies
PublishSticky(old, new) == IF new.outbreak THEN new ELSE old

\* the published state is replaced wholesale
Publish(old, new) == new

(***************************************************************************)
(* The machine: the observation store, the clock, and the detection cycle  *)
(* run after each new observation or on a schedule                         *)
(***************************************************************************)
NoMemo == [kept |-> FALSE]

NoTasks == [phase |-> "idle"]

\* no configuration handed to the loader yet
NoConfig == [status |-> "none"]

\* a device that has not reported a location yet
NoDevice ==
    [lat |-> NULL, lng |-> NULL, old_lat |-> NULL, old_lng |-> NULL,
     zone |-> NoOutbreak, updates |-> 0, pushes |-> 0,
     response |-> [alert_sent |-> FALSE, in_outbreak_zone |-> FALSE]]

\* before the first cycle
NoCycle ==
    [args |-> [W |-> <<>>, t |-> 0, cfg |-> DefaultConfig],
     filtered |-> <<>>, clusters |-> <<>>, stats |-> <<>>,
     qualifying |-> {}, winner |-> 0, state |-> NoOutbreak]

Observation(id, lat, lng, leuk, at) ==
    [id |-> id, lat |-> lat, lng |-> lng, leuk |-> leuk, at |-> at]

\* one call of detect on the store at the clock's time; its result is
\* published.  The call may be kept in memo, once, for later comparison.
RunDetect(W, t, cfg) ==
    /\ UNCHANGED <<tasks, config, device>>
    /\ UNCHANGED clientVars
    /\ cycle' = DetectCycle(W, t, cfg)
    /\ previous' = published
    /\ published' = Publish(published, cycle'.state)
    /\ \/ memo' = memo
       \/ /\ ~memo.kept
          /\ memo' = [kept |-> TRUE, args |-> cycle'.args, result |-> published']

\* POST /observations: the observation is stored and detection is run
PostObservation(o, cfg) ==
    /\ window' = Append(window, o)
    /\ now' = now
    /\ RunDetect(window', now, cfg)

\* detection on a schedule, under one of the documented grids
ScheduledDetect(cfg) ==
    /\ UNCHANGED <<window, now>>
    /\ RunDetect(window, now, cfg)

\* time passes
Tick(hours) ==
    /\ now' = now + hours
    /\ UNCHANGED <<window, cycle, published, previous, memo, tasks, config, device>>
    /\ UNCHANGED clientVars

(***************************************************************************)
(* The clients at start.  A handle of a timer is 0 when it is null and the *)
(* number of the timer otherwise; the timers the runtime keeps alive are   *)
(* sets of such numbers.  A call of an async function is a record with the *)
(* await it is suspended at.                                               *)
(***************************************************************************)
\* locationService.ts: no polling, no call of start yet, device outside
NoMonitoring ==
    [isMonitoring |-> FALSE,
     locationPollingInterval |-> 0,
     outbreakCheckInterval |-> 0,
     sendTimers |-> {},         \* live intervals running sendLocation
     checkTimers |-> {},        \* live intervals running checkOutbreakZone
     calls |-> <<>>,            \* calls of startForegroundLocationPolling
     inOutbreakZone |-> FALSE,  \* what the server answers for the device
     stopped |-> FALSE,         \* stop has returned, no start called since
     ticks |-> 0,               \* timer callbacks run so far
     tick |-> "none",           \* how the last timer callback ended
     callbacks |-> 0,           \* invocations of onLocationUpdate so far
     lastCallback |-> "none"]   \* argument of the last invocation

\* notificationService.ts: nothing notified, no call in flight
NoNotifications ==
    [lastNotificationTime |-> NULL,
     clock |-> 0,               \* minutes
     calls |-> <<>>,            \* calls of sendUrgentOutbreakAlert
     scheduled |-> <<>>]        \* times of the notifications scheduled

\* the alerts the server raises, by identifier
AlertIds == {1, 2, 3}

\* realtimeService.ts and socketService.ts: no socket, no monitoring
NoRealtime ==
    [socket |-> FALSE,          \* socketService.socket is not null
     isConnected |-> FALSE,     \* socketService.isConnected
     isMonitoring |-> FALSE,
     locationInterval |-> FALSE,   \* the handle is not null
     pingInterval |-> FALSE,
     liveIntervals |-> 0,       \* live intervals running the location poll
     isInOutbreakZone |-> FALSE,
     polls |-> <<>>,            \* initial sends and polls of the location
     zoneChanges |-> 0,         \* invocations of onOutbreakZoneChange
     lastZoneCallback |-> "none",  \* argument of the last invocation
     answers |-> 0,             \* zone statuses answered to interval polls
     returned |-> "none",       \* the last of them
     localAlerts |-> 0,         \* local notifications of the initial check
     viaSocket |-> {},          \* alerts received as outbreak_alert events
     viaPush |-> {},            \* alerts received as push notifications
     presented |-> [a \in AlertIds |-> 0]]  \* times shown to the user

\* WebSocketClient constructor (part_004 lines 8-14) and the web page
\* before initialize()
NoWebSocket ==
    [ws |-> "null",             \* this.ws: null, or readyState of the socket
     isConnected |-> FALSE,
     reconnectAttempts |-> 0,
     heartbeatInterval |-> FALSE,  \* the handle is not null
     heartbeatLive |-> FALSE,   \* the heartbeat interval is running
     reconnectTimer |-> FALSE,  \* a setTimeout of connect() is pending
     pollingInterval |-> FALSE, \* the polling timer of the page is running
     disconnected |-> FALSE,    \* disconnect() has been called
     received |-> 0,            \* message events handled
     message |-> "none",        \* the last one
     pongs |-> 0,               \* pongs sent
     heartbeats |-> 0,          \* heartbeats sent
     forwarded |-> <<>>,        \* messages handed to onMessage
     pollTicks |-> 0,           \* ticks of the polling timer
     lastTick |-> "none",       \* what the last one did
     reloads |-> 0]             \* loadHeatmapData() by the polling timer

(***************************************************************************)
(* The Socket.IO client of the mobile app at start (socketService.ts).     *)
(* Sockets and connect() calls are numbered in the order of their creation.*)
(***************************************************************************)
MaxConnects == 2        \* calls of connect(), hence sockets created by io()

MaxDrops == 1           \* 'disconnect' events of the transport

maxReconnectAttempts == 5

SocketIds == 1..MaxConnects

NoSocket ==
    [state |-> "none",      \* none, connecting, connected, closed, failed
     attempts |-> 0,        \* failed attempts of the current sequence
     budget |-> 0,          \* attempts the manager makes in this sequence
     first |-> "none",      \* first event emitted on it for this connection
     authenticated |-> FALSE] \* 'authenticate' emitted since its last connect

NoCall ==
    [pc |-> "idle",         \* idle, getDeviceId, pending, done
     socket |-> 0,          \* the socket whose events settle the promise
     result |-> "none",     \* none, true, false
     how |-> "none"]        \* at once, connect, errors, thrown

NoSocketService ==
    [socket |-> 0,              \* this.socket: 0 is null
     isConnected |-> FALSE,
     userId |-> FALSE,          \* this.userId is set
     reconnectAttempts |-> 0,
     created |-> 0,             \* sockets created so far
     called |-> 0,              \* calls of connect() so far
     drops |-> 0,               \* 'disconnect' events so far
     lastSend |-> "none",       \* fate of the last sendLocationUpdate
     sockets |-> [s \in SocketIds |-> NoSocket],
     calls |-> [c \in SocketIds |-> NoCall]]

ClientInit ==
    /\ locationService = NoMonitoring
    /\ notificationService = NoNotifications
    /\ realtimeService = NoRealtime
    /\ webSocketClient = NoWebSocket
    /\ socketService = NoSocketService

(***************************************************************************)
(* Spec: small stores on the grid, one observation at a time               *)
(***************************************************************************)
MaxObs == 3

Latitudes == {-15, -5, 5, 15, 25}

Longitudes == {-4925, -4915}

\* observations as they arrive: on the grid, collected exactly 7 days ago or
\* an hour before that; or without a latitude, a longitude or a timestamp
Arrivals(id, t) ==
    {Observation(id, Some(la), Some(lo), NULL, Some(t - age)) :
        la \in Latitudes, lo \in Longitudes, age \in {HOURS_7D, HOURS_7D + 1}}
    \cup {Observation(id, NULL, Some(-4925), NULL, Some(t)),
          Observation(id, Some(5), NULL, NULL, Some(t)),
          Observation(id, Some(5), Some(-4925), NULL, NULL)}

Init ==
    /\ window = <<>>
    /\ now = 200
    /\ cycle = NoCycle
    /\ published = NoOutbreak
    /\ previous = NoOutbreak
    /\ memo = NoMemo
    /\ tasks = NoTasks
    /\ config = NoConfig
    /\ device = NoDevice
    /\ ClientInit

Next ==
    \E o \in Arrivals(Len(window) + 1, now) :
        /\ Len(window) < MaxObs
        /\ PostObservation(o, DefaultConfig)
        /\ memo' = memo

Spec == Init /\ [][Next]_vars

(***************************************************************************)
(* SpecStats: one cell, observations collected around the limits of the    *)
(* three temporal windows, with and without a leukocyte count              *)
(***************************************************************************)
StatsArrivals(id, t) ==
    {Observation(id, Some(5), Some(-4925), lk, Some(t - age)) :
        lk \in {NULL, Some(ELEVATED_THRESHOLD - 1), Some(ELEVATED_THRESHOLD)},
        age \in {HOURS_24, HOURS_24 + 1, HOURS_48, HOURS_48 + 1,
                 HOURS_7D, HOURS_7D + 1}}

NextStats ==
    \E o \in StatsArrivals(Len(window) + 1, now) :
        /\ Len(window) < MaxObs
        /\ PostObservation(o, DefaultConfig)
        /\ memo' = memo

SpecStats == Init /\ [][NextStats]_vars

(***************************************************************************)
(* SpecBoundary: a few recent elevated cases close together, under a       *)
(* configuration whose minimum volume is one case, so that every cluster   *)
(* qualifies and its boundary is computed                                  *)
(***************************************************************************)
SingleCaseConfig == [DefaultConfig EXCEPT !.min_volume = 1]

BoundaryArrivals(id, t) ==
    {Observation(id, Some(la), Some(lo), Some(ELEVATED_THRESHOLD), Some(t)) :
        la \in {1, 2, 4, 8}, lo \in {-4925, -4923, -4920}}

NextBoundary ==
    \E o \in BoundaryArrivals(Len(window) + 1, now) :
        /\ Len(window) < MaxObs
        /\ PostObservation(o, SingleCaseConfig)
        /\ memo' = memo

SpecBoundary == Init /\ [][NextBoundary]_vars

(***************************************************************************)
(* SpecVolume: two groups of cases, A and B, each about the minimum        *)
(* volume, two cells apart on the 0.1 degree grid (and so neighbours on    *)
(* the 0.2 degree grid); detection on a schedule under either grid, a day  *)
(* apart                                                                   *)
(***************************************************************************)
MaxTotal == 22

MaxDays == 1

\* total cases of which the last `elevated` have elevated leukocytes; the
\* first `last` were collected an hour ago, the next `prev` 25 hours ago,
\* the others three days ago
Cases(first_id, total, elevated, last, prev, lat, t) ==
    [i \in 1..total |->
        Observation(first_id + i - 1, Some(lat), Some(-4925),
            IF i > total - elevated THEN Some(ELEVATED_THRESHOLD)
            ELSE Some(ELEVATED_THRESHOLD - 1),
            IF i <= last THEN Some(t - 1)
            ELSE IF i <= last + prev THEN Some(t - 25)
            ELSE Some(t - 72))]

InitVolume ==
    /\ now = 200
    /\ \E ta, tb \in (MIN_VOLUME - 1)..MaxTotal :
       \E ea \in {8, 10, 11}, eb \in {10, 11}, la \in {6, 7} :
            window = Cases(1, ta, ea, la, 5, 5, now)
                        \o Cases(ta + 1, tb, eb, 7, 5, 25, now)
    /\ cycle = NoCycle
    /\ published = NoOutbreak
    /\ previous = NoOutbreak
    /\ memo = NoMemo
    /\ tasks = NoTasks
    /\ config = NoConfig
    /\ device = NoDevice
    /\ ClientInit

NextVolume ==
    \/ \E cfg \in {DefaultConfig, RuralConfig} : ScheduledDetect(cfg)
    \/ /\ now < 200 + MaxDays * HOURS_24
       /\ Tick(HOURS_24)

SpecVolume == InitVolume /\ [][NextVolume]_vars

(***************************************************************************)
(* SpecConcurrent: one cycle over the same groups of cases, the statistics *)
(* of each cluster computed by a task of its own; the tasks complete in    *)
(* any order and each result is merged into the choice as it completes     *)
(***************************************************************************)
\* the cycle starts: the analysis set is clustered, one task per cluster
StartCycle(cfg) ==
    /\ tasks.phase = "idle"
    /\ LET filtered == Filter(window, now)
           clusters == Cluster(filtered, cfg.cell_size)
       IN  tasks' = [phase |-> "running",
                     args |-> [W |-> window, t |-> now, cfg |-> cfg],
                     filtered |-> filtered,
                     clusters |-> clusters,
                     results |-> [k \in 1..Len(clusters) |-> NULL],
                     order |-> <<>>,
                     best |-> 0]
    /\ UNCHANGED <<window, now, cycle, published, previous, memo, config, device>>
    /\ UNCHANGED clientVars

\* the choice after the result s of cluster k is merged into it
Merge(best, k, s, clusters, results, cfg) ==
    IF ~Qualifies(clusters[k], s, cfg) THEN best
    ELSE IF best = 0 THEN k
    ELSE Prefer([j \in {best, k} |-> IF j = k THEN s ELSE Val(results[j])], best, k)

\* the task of cluster k completes and its result is merged
CompleteTask(k) ==
    /\ ~Present(tasks.results[k])
    /\ LET s == compute_statistics(tasks.clusters[k], tasks.args.t)
       IN  tasks' = [tasks EXCEPT
                        !.results[k] = Some(s),
                        !.order = Append(@, k),
                        !.best = Merge(tasks.best, k, s, tasks.clusters,
                                       tasks.results, tasks.args.cfg)]
    /\ UNCHANGED <<window, now, cycle, published, previous, memo, config, device>>
    /\ UNCHANGED clientVars

\* every task has completed: the result of the cycle is published
FinishCycle ==
    /\ tasks.phase = "running"
    /\ \A k \in 1..Len(tasks.clusters) : Present(tasks.results[k])
    /\ tasks' = [tasks EXCEPT !.phase = "finished"]
    /\ cycle' = CycleRecord(tasks.args.W, tasks.args.t, tasks.args.cfg,
                    tasks.filtered, tasks.clusters,
                    [k \in 1..Len(tasks.clusters) |-> Val(tasks.results[k])],
                    tasks.best)
    /\ previous' = published
    /\ published' = Publish(published, cycle'.state)
    /\ UNCHANGED <<window, now, memo, config, device>>
    /\ UNCHANGED clientVars

NextConcurrent ==
    \/ \E cfg \in {DefaultConfig, RuralConfig} : StartCycle(cfg)
    \/ /\ tasks.phase = "running"
       /\ \E k \in 1..Len(tasks.clusters) : CompleteTask(k)
    \/ FinishCycle

SpecConcurrent == InitVolume /\ [][NextConcurrent]_vars

(***************************************************************************)
(* SpecFilter: recent, old and malformed observations arriving in two      *)
(* neighbouring cells and in one cell apart, under the configuration whose *)
(* minimum volume is one case                                              *)
(***************************************************************************)
FilterLatitudes == {5, 15, 35}

FilterArrivals(id, t) ==
    {Observation(id, Some(la), Some(-4925), lk, Some(t - age)) :
        la \in FilterLatitudes,
        lk \in {NULL, Some(ELEVATED_THRESHOLD)},
        age \in {0, HOURS_7D, HOURS_7D + 1}}
    \cup {Observation(id, NULL, Some(-4925), Some(ELEVATED_THRESHOLD), Some(t)),
          Observation(id, Some(5), NULL, Some(ELEVATED_THRESHOLD), Some(t)),
          Observation(id, Some(5), Some(-4925), Some(ELEVATED_THRESHOLD), NULL)}

NextFilter ==
    \E o \in FilterArrivals(Len(window) + 1, now) :
        /\ Len(window) < MaxObs
        /\ PostObservation(o, SingleCaseConfig)
        /\ memo' = memo

SpecFilter == Init /\ [][NextFilter]_vars

(***************************************************************************)
(* SpecConfig: configurations are handed to the loader, sound ones and     *)
(* ones with a cell size or a threshold out of range; detection runs under *)
(* the configuration in force                                              *)
(***************************************************************************)
\* a slip: only the cell size validated
ValidCellSizeOnly(raw) == raw.cell_size > 0

ValidConfig(raw) ==
    /\ raw.cell_size > 0
    /\ raw.min_volume >= 0
    /\ raw.severity >= 0
    /\ raw.growth >= 0

\* the loader: the configuration in force, or a configuration error
load_config(raw) ==
    IF ValidConfig(raw) THEN [status |-> "loaded", cfg |-> raw]
    ELSE [status |-> "error", raw |-> raw]

LoadConfig(raw) ==
    /\ config' = load_config(raw)
    /\ UNCHANGED <<window, now, cycle, published, previous, memo, tasks, device>>
    /\ UNCHANGED clientVars

\* an observation arrives: detection runs if a configuration is in force
ConfiguredPost(o) ==
    /\ config.status = "loaded"
    /\ PostObservation(o, config.cfg)
    /\ memo' = memo

RawConfigs ==
    [cell_size : {-GRID_SIZE, 0, GRID_SIZE},
     min_volume : {-1, 1},
     severity : {-SEVERITY_THRESHOLD, 0, SEVERITY_THRESHOLD},
     growth : {-GROWTH_THRESHOLD, GROWTH_THRESHOLD}]

ConfigArrivals(id, t) ==
    {Observation(id, Some(la), Some(-4925), Some(ELEVATED_THRESHOLD), Some(t)) :
        la \in {5, 15}}

NextConfig ==
    \/ \E raw \in RawConfigs : LoadConfig(raw)
    \/ \E o \in ConfigArrivals(Len(window) + 1, now) :
        /\ Len(window) < MaxObs
        /\ ConfiguredPost(o)

SpecConfig == Init /\ [][NextConfig]_vars

(***************************************************************************)
(* SpecDevice: a mobile device reports its location while observations     *)
(* arrive and the published outbreak zone appears, moves and disappears    *)
(***************************************************************************)
MaxUpdates == 3

\* whether a location, if any, lies in the zone of the outbreak data
is_in_outbreak_zone(lat, lng, outbreak_data) ==
    /\ Present(lat) /\ Present(lng)
    /\ outbreak_data.outbreak
    /\ is_within(Val(lat), Val(lng), outbreak_data.centroid,
                 outbreak_data.radius_meters)

\* a slip: an alert on every update from inside the zone
should_alert_inside(in_outbreak, was_in_outbreak) == in_outbreak

\* should_alert = in_outbreak and not was_in_outbreak
should_alert(in_outbreak, was_in_outbreak) == in_outbreak /\ ~was_in_outbreak

\* the view before its correction: the transition reported as the state
location_response_before_fix(alert, in_outbreak_zone) ==
    [alert_sent |-> alert, in_outbreak_zone |-> alert]

\* the response of POST /api/mobile/location
location_response(alert, in_outbreak_zone) ==
    [alert_sent |-> alert, in_outbreak_zone |-> in_outbreak_zone]

\* the device after the update, with the response sent to it and the count
\* of the push alerts sent so far
update_device_location(dev, lat, lng, outbreak_data) ==
    LET in_outbreak == is_in_outbreak_zone(Some(lat), Some(lng), outbreak_data)
        was_in_outbreak == is_in_outbreak_zone(dev.lat, dev.lng, outbreak_data)
        alert == should_alert(in_outbreak, was_in_outbreak)
    IN  [lat |-> Some(lat), lng |-> Some(lng),
         old_lat |-> dev.lat, old_lng |-> dev.lng,
         zone |-> outbreak_data,
         updates |-> dev.updates + 1,
         pushes |-> dev.pushes + (IF alert THEN 1 ELSE 0),
         response |-> location_response(alert, in_outbreak)]

UpdateLocation(lat, lng) ==
    /\ device.updates < MaxUpdates
    /\ device' = update_device_location(device, lat, lng, published)
    /\ UNCHANGED <<window, now, cycle, published, previous, memo, tasks, config>>
    /\ UNCHANGED clientVars

DeviceLatitudes == {2, 5, 8, 40}

DeviceArrivals(id, t) ==
    {Observation(id, Some(la), Some(-4925), lk, Some(t)) :
        la \in {2, 8}, lk \in {NULL, Some(ELEVATED_THRESHOLD)}}

NextDevice ==
    \/ \E o \in DeviceArrivals(Len(window) + 1, now) :
        /\ Len(window) < MaxObs
        /\ PostObservation(o, SingleCaseConfig)
        /\ memo' = memo
    \/ \E la \in DeviceLatitudes : UpdateLocation(la, -4925)

SpecDevice == Init /\ [][NextDevice]_vars

(***************************************************************************)
(* Claims about the clusterer                                              *)
(***************************************************************************)
\* where an observation occurs in the clusters of the last cycle
Places(o) ==
    {<<k, i>> \in (1..Len(cycle.clusters)) \X (1..Len(cycle.args.W)) :
        i <= Len(cycle.clusters[k]) /\ cycle.clusters[k][i] = o}

\* C1: the clusters of a cycle partition the filtered input: an observation
\* of the window with both coordinates and collected within the 7 days
\* before the cycle's instant is in exactly one cluster, once; any other
\* observation of the window is in none; and every member of a cluster is an
\* observation of the window.
C1_ClustersPartitionFilteredInput ==
    LET W == cycle.args.W
        t == cycle.args.t
        Wanted(o) ==
            /\ Present(o.lat) /\ Present(o.lng) /\ Present(o.at)
            /\ Val(o.at) >= t - 168
    IN  /\ \A j \in 1..Len(W) :
            Cardinality(Places(W[j])) = IF Wanted(W[j]) THEN 1 ELSE 0
        /\ \A k \in 1..Len(cycle.clusters) : \A i \in 1..Len(cycle.clusters[k]) :
            \E j \in 1..Len(W) : W[j] = cycle.clusters[k][i]

\* C1 witness: a cycle that left one observation out (collected an hour
\* more than 7 days before) and returned the other two in two clusters
C1_Witness ==
    /\ Len(cycle.args.W) = 3
    /\ Len(cycle.filtered) = 2
    /\ Len(cycle.clusters) = 2
    /\ \A j \in 1..3 : Present(cycle.args.W[j].lat) /\ Present(cycle.args.W[j].lng)

\* the pairs of occupied cells linked by a chain of occupied cells whose
\* consecutive cells differ by at most 1 in each index
RECURSIVE Chains(_, _)
Chains(R, cells) ==
    LET longer == R \cup {p \in cells \X cells :
                            \E m \in cells : <<p[1], m>> \in R /\ <<m, p[2]>> \in R}
    IN  IF longer = R THEN R ELSE Chains(longer, cells)

ChainLinked(cells) ==
    Chains({p \in cells \X cells :
                /\ p[1][1] - p[2][1] \in {-1, 0, 1}
                /\ p[1][2] - p[2][2] \in {-1, 0, 1}}, cells)

SameCluster(o1, o2) ==
    \E k \in 1..Len(cycle.clusters) :
        /\ \E i \in 1..Len(cycle.clusters[k]) : cycle.clusters[k][i] = o1
        /\ \E i \in 1..Len(cycle.clusters[k]) : cycle.clusters[k][i] = o2

CellOf(o) == GridCell(o, cycle.args.cfg.cell_size)

\* C2: two observations of the filtered input share a cluster exactly when
\* their grid cells are linked by a chain of occupied cells with consecutive
\* cells at most 1 apart in each index; in particular they do when their own
\* cells are at most 1 apart in both indices.
C2_SameClusterIffChainOfAdjacentCells ==
    LET obs == cycle.filtered
        cells == {CellOf(obs[i]) : i \in 1..Len(obs)}
        linked == ChainLinked(cells)
    IN  \A i, j \in 1..Len(obs) :
            /\ SameCluster(obs[i], obs[j]) <=> <<CellOf(obs[i]), CellOf(obs[j])>> \in linked
            /\ (/\ Abs(CellOf(obs[i])[1] - CellOf(obs[j])[1]) <= 1
                /\ Abs(CellOf(obs[i])[2] - CellOf(obs[j])[2]) <= 1)
               => SameCluster(obs[i], obs[j])

\* C2 witness: two observations two rows apart share a cluster through a
\* third cell that touches the first only by a corner
C2_Witness ==
    \E i, j, m \in 1..Len(cycle.filtered) :
        LET a == CellOf(cycle.filtered[i])
            b == CellOf(cycle.filtered[j])
            c == CellOf(cycle.filtered[m])
        IN  /\ Abs(a[1] - b[1]) = 2
            /\ Abs(a[1] - c[1]) = 1 /\ Abs(a[2] - c[2]) = 1
            /\ SameCluster(cycle.filtered[i], cycle.filtered[j])

(***************************************************************************)
(* Claims about the statistics                                             *)
(***************************************************************************)
\* C9: growth_pct of every cluster is 100 * (last - prev) / prev when the
\* previous 24 hours hold a case, exactly 100 when they hold none and the
\* last 24 hours hold one, and 0 when neither holds a case.
C9_GrowthPctByCases ==
    \A k \in 1..Len(cycle.stats) :
        LET s == cycle.stats[k]
            last == s.count_last_24h
            prev == s.count_prev_24h
        IN  IF prev > 0
            THEN s.growth_pct[1] * prev = 100 * (last - prev) * s.growth_pct[2]
            ELSE IF last > 0 THEN s.growth_pct = <<100, 1>>
            ELSE s.growth_pct = <<0, 1>>

\* C9 witness: a cluster with two cases in the last 24 hours and none in the
\* 24 hours before, whose growth is 100
C9_Witness ==
    /\ Len(cycle.stats) = 1
    /\ cycle.stats[1].count_last_24h = 2
    /\ cycle.stats[1].count_prev_24h = 0
    /\ cycle.stats[1].growth_pct = <<100, 1>>

\* C10: in every cluster count_last_24h is the number of its observations
\* collected at or after now - 24h, count_prev_24h the number collected from
\* now - 48h on and before now - 24h; no observation is counted in both, and
\* the two counts together do not exceed total_7d.
C10_WindowCounts ==
    \A k \in 1..Len(cycle.clusters) :
        LET cl == cycle.clusters[k]
            s == cycle.stats[k]
            t == cycle.args.t
            At(i) == Val(cl[i].at)
        IN  /\ s.count_last_24h = Cardinality({i \in 1..Len(cl) : At(i) >= t - 24})
            /\ s.count_prev_24h =
                   Cardinality({i \in 1..Len(cl) : t - 48 <= At(i) /\ At(i) < t - 24})
            /\ \A i \in 1..Len(cl) : ~(InLast24(cl[i], t) /\ InPrev24(cl[i], t))
            /\ s.count_last_24h + s.count_prev_24h <= s.total_7d

\* C10 witness: a cluster with a case collected exactly 24 hours before the
\* cycle, counted in the last 24 hours, one collected exactly 48 hours
\* before, counted in the previous 24, and one older case counted in neither
C10_Witness ==
    /\ Len(cycle.clusters) = 1
    /\ \E i \in 1..Len(cycle.clusters[1]) :
           Val(cycle.clusters[1][i].at) = cycle.args.t - 24
    /\ \E i \in 1..Len(cycle.clusters[1]) :
           Val(cycle.clusters[1][i].at) = cycle.args.t - 48
    /\ cycle.stats[1].count_last_24h = 1
    /\ cycle.stats[1].count_prev_24h = 1
    /\ cycle.stats[1].total_7d = 3

(***************************************************************************)
(* Claims about the boundary                                               *)
(***************************************************************************)
\* C8: every observation of the cluster whose boundary is published lies
\* within it: its distance to the centroid, in metres, is at most the
\* published radius; and the radius of a single observation is 0.
C8_ObservationsWithinBoundary ==
    published.outbreak =>
        LET cl == cycle.clusters[cycle.winner]
        IN  /\ \A i \in 1..Len(cl) :
                is_within(Val(cl[i].lat), Val(cl[i].lng),
                          published.centroid, published.radius_meters)
            /\ Len(cl) = 1 => published.radius_meters.d2 = <<0, 1>>

\* C8 witness: a published boundary of three observations, not all at the
\* same distance from the centroid
C8_Witness ==
    /\ published.outbreak
    /\ published.point_count = 3
    /\ \E i \in 1..3 :
        LET o == cycle.clusters[cycle.winner][i]
        IN  RatLT(Distance2(Val(o.lat), Val(o.lng), published.centroid),
                  published.radius_meters.d2)

(***************************************************************************)
(* Claims about the classifier and the orchestrator                        *)
(***************************************************************************)
\* the three criteria, read off the statistics of a cluster
MeetsCriteria(s) ==
    /\ s.total_7d >= 20
    /\ s.pct_elevated[1] > 40 * s.pct_elevated[2]
    /\ s.growth_pct[1] > 20 * s.growth_pct[2]

MeetingCriteria == {k \in 1..Len(cycle.stats) : MeetsCriteria(cycle.stats[k])}

\* C3: the clusters the classifier holds to qualify are those with
\* total_7d >= 20, pct_elevated > 40 and growth_pct > 20, both strictly; and
\* it returns none exactly when no cluster qualifies.
C3_QualifiesIffThreeCriteria ==
    /\ cycle.qualifying = MeetingCriteria
    /\ cycle.winner = 0 <=> MeetingCriteria = {}
    /\ cycle.winner = 0 => cycle.state = NoOutbreak

\* C3 witness: a cycle that returned none over a cluster of 20 cases at
\* exactly 40% elevated with a growth of 40%, and a cluster of 19 cases above
\* both thresholds
C3_Witness ==
    /\ Len(cycle.stats) = 2
    /\ cycle.winner = 0
    /\ cycle.stats[1].total_7d = 20
    /\ cycle.stats[1].pct_elevated = <<40, 1>>
    /\ cycle.stats[1].growth_pct = <<40, 1>>
    /\ cycle.stats[2].total_7d = 19
    /\ RatLT(<<40, 1>>, cycle.stats[2].pct_elevated)
    /\ RatLT(<<20, 1>>, cycle.stats[2].growth_pct)

\* C4: the cluster returned meets the criteria, no cluster meeting them has
\* a higher pct_elevated, and none of equal pct_elevated has a higher
\* total_7d.
C4_MostSevereQualifyingCluster ==
    cycle.winner # 0 =>
        LET w == cycle.stats[cycle.winner]
        IN  /\ cycle.winner \in MeetingCriteria
            /\ \A j \in MeetingCriteria :
                LET s == cycle.stats[j]
                IN  /\ s.elevated_7d * w.total_7d <= w.elevated_7d * s.total_7d
                    /\ s.elevated_7d * w.total_7d = w.elevated_7d * s.total_7d
                        => s.total_7d <= w.total_7d

\* C4 witness: two qualifying clusters at 50% elevated, of 20 and of 22
\* cases: the second is returned
C4_Witness ==
    /\ cycle.qualifying = {1, 2}
    /\ cycle.stats[1].pct_elevated = <<50, 1>>
    /\ cycle.stats[2].pct_elevated = <<50, 1>>
    /\ cycle.stats[1].total_7d = 20
    /\ cycle.stats[2].total_7d = 22
    /\ cycle.winner = 2
    /\ published.outbreak /\ published.point_count = 22

\* C5: when every task has completed, the cluster chosen by merging the
\* results in their order of completion is the one the sequential classifier
\* chooses, whatever that order was.
C5_ChoiceIndependentOfCompletionOrder ==
    tasks.phase = "finished" =>
        tasks.best = classify(tasks.clusters,
                        [k \in 1..Len(tasks.clusters) |-> Val(tasks.results[k])],
                        tasks.args.cfg)

\* C5 witness: two qualifying clusters of equal pct_elevated and equal
\* total_7d, the second completed first, and the first is chosen
C5_Witness ==
    /\ tasks.phase = "finished"
    /\ tasks.order = <<2, 1>>
    /\ cycle.qualifying = {1, 2}
    /\ cycle.stats[1].pct_elevated = cycle.stats[2].pct_elevated
    /\ cycle.stats[1].total_7d = cycle.stats[2].total_7d
    /\ tasks.best = 1

C7_PublishedIsTheCyclesResult ==
    IF MeetingCriteria = {} THEN published = NoOutbreak
    ELSE \E k \in MeetingCriteria :
            published = OutbreakState(cycle.clusters[k], cycle.stats[k],
                                      cycle.args.cfg)

\* C7 witness: a cycle without a qualifying cluster has published 'no
\* outbreak' after a cycle that published an outbreak
C7_Witness ==
    /\ previous.outbreak
    /\ ~published.outbreak
    /\ Len(cycle.clusters) > 0
    /\ cycle.qualifying = {}

(***************************************************************************)
(* Claims about the elevated cases, the analysis set and the grid          *)
(***************************************************************************)
\* the positions of the store whose observation counts as elevated at now
ElevatedAt ==
    {i \in 1..Len(window) :
        /\ Val(window[i].at) >= now - 168
        /\ Len(window[i].leuk) = 1
        /\ window[i].leuk[1] >= 11000}

\* C11: over the observations of the store, elevated_7d counts exactly those
\* of the last 7 days whose leukocyte count is present and at least 11000;
\* 0 <= elevated_7d <= total_7d, pct_elevated is 100 * elevated_7d / total_7d
\* and lies between 0 and 100, and it is 0 when total_7d is 0.
C11_ElevatedCountAndPercentage ==
    LET s == compute_statistics(window, now)
    IN  /\ s.elevated_7d = Cardinality(ElevatedAt)
        /\ 0 <= s.elevated_7d /\ s.elevated_7d <= s.total_7d
        /\ s.pct_elevated[2] > 0
        /\ 0 <= s.pct_elevated[1]
        /\ s.pct_elevated[1] <= 100 * s.pct_elevated[2]
        /\ s.total_7d > 0 =>
               s.pct_elevated[1] * s.total_7d = 100 * s.elevated_7d * s.pct_elevated[2]
        /\ s.total_7d = 0 => s.pct_elevated = <<0, 1>>
        /\ \A k \in 1..Len(cycle.stats) : cycle.stats[k] = s

\* C11 witness: a case of exactly 11000 collected exactly 7 days ago, a case
\* without a leukocyte count and a case of 10999: one elevated in three
C11_Witness ==
    /\ Len(window) = 3
    /\ \E i \in ElevatedAt :
           window[i].leuk = <<11000>> /\ Val(window[i].at) = now - 168
    /\ \E i \in 1..3 : window[i].leuk = <<>> /\ Val(window[i].at) >= now - 168
    /\ \E i \in 1..3 : window[i].leuk = <<10999>> /\ Val(window[i].at) >= now - 168
    /\ Len(cycle.stats) = 1
    /\ cycle.stats[1].elevated_7d = 1
    /\ cycle.stats[1].total_7d = 3

\* an observation without a usable latitude, longitude or timestamp
Malformed(o) == ~(Len(o.lat) = 1 /\ Len(o.lng) = 1 /\ Len(o.at) = 1)

\* the store without its i-th observation
Without(W, i) == SubSeq(W, 1, i - 1) \o SubSeq(W, i + 1, Len(W))

\* C12: the cycle run on a store that holds malformed observations ends
\* with a result, which is the result of detect on the store without any
\* one of them, and on the store without all of them.
C12_MalformedObservationIgnored ==
    /\ cycle.args.W = window => published = cycle.state
    /\ \A i \in 1..Len(window) :
           Malformed(window[i]) =>
               cycle.state = detect(Without(window, i), now, cycle.args.cfg)
    /\ cycle.state =
           detect(SelectSeq(window, LAMBDA o : ~Malformed(o)), now, cycle.args.cfg)

\* C12 witness: a store whose first observation has no latitude, followed
\* by two recent elevated cases, on which an outbreak of two cases is
\* published
C12_Witness ==
    /\ Len(window) = 3
    /\ window[1].lat = <<>>
    /\ ~Malformed(window[2]) /\ ~Malformed(window[3])
    /\ cycle.args.W = window
    /\ published.outbreak
    /\ published.point_count = 2

\* an observation with coordinates, collected in the last 7 days
Counts(o) ==
    /\ Len(o.lat) = 1 /\ Len(o.lng) = 1 /\ Len(o.at) = 1
    /\ o.at[1] >= now - 168

\* C13: the result of the cycle is the result of detect on the store
\* restricted to the observations with coordinates collected in the last 7
\* days; no other observation is in a cluster or in the outbreak's count;
\* and a store without such an observation, the empty one included, gives
\* 'no outbreak'.
C13_OnlyRecentLocatedObservationsCount ==
    LET restricted == SelectSeq(window, Counts)
    IN  /\ cycle.state = detect(restricted, now, cycle.args.cfg)
        /\ \A k \in 1..Len(cycle.clusters) :
               \A i \in 1..Len(cycle.clusters[k]) : Counts(cycle.clusters[k][i])
        /\ published.outbreak => published.point_count <= Len(restricted)
        /\ restricted = <<>> => cycle.state = NoOutbreak /\ published = NoOutbreak
        /\ detect(<<>>, now, cycle.args.cfg) = NoOutbreak

\* C13 witness: a recent elevated case, and next to it two elevated cases
\* collected more than 7 days ago: the outbreak published has one case and
\* radius 0
C13_Witness ==
    /\ Len(window) = 3
    /\ Cardinality({i \in 1..3 : Counts(window[i])}) = 1
    /\ Cardinality({i \in 1..3 : ~Malformed(window[i]) /\ ~Counts(window[i])
                                    /\ window[i].leuk = <<11000>>}) = 2
    /\ cycle.args.W = window
    /\ published.outbreak
    /\ published.point_count = 1
    /\ published.radius_meters.d2 = <<0, 1>>

\* the cell of the observation o is neither a cell of the cluster cl nor
\* next to one
Apart(o, cl, size) ==
    \A i \in 1..Len(cl) :
        LET c == GridCell(o, size)
            d == GridCell(cl[i], size)
        IN  \/ c[1] - d[1] > 1 \/ d[1] - c[1] > 1
            \/ c[2] - d[2] > 1 \/ d[2] - c[2] > 1

\* C14: when an observation arrives that is not counted or whose cell is
\* apart from a cluster of the last cycle, the next cycle has that cluster
\* with the same observations, the same statistics and the same
\* qualification.
C14_ClusterStatisticsOwnObservationsOnly ==
    [][\A k \in 1..Len(cycle.clusters) :
          (/\ window' = Append(window, window'[Len(window')])
           /\ cycle'.args.t = cycle.args.t
           /\ LET o == window'[Len(window')]
              IN  Counts(o) => Apart(o, cycle.clusters[k], cycle.args.cfg.cell_size))
          => \E j \in 1..Len(cycle'.clusters) :
                /\ cycle'.clusters[j] = cycle.clusters[k]
                /\ cycle'.stats[j].total_7d = cycle.stats[k].total_7d
                /\ cycle'.stats[j].pct_elevated = cycle.stats[k].pct_elevated
                /\ cycle'.stats[j].growth_pct = cycle.stats[k].growth_pct
                /\ (j \in cycle'.qualifying) = (k \in cycle.qualifying)]_vars

\* C14 witness: a qualifying cluster of one elevated and one plain recent
\* case at 50%, and after it a recent plain case in the cell apart, a
\* cluster of its own
C14_Witness ==
    /\ Len(window) = 3
    /\ cycle.args.W = window
    /\ Len(cycle.clusters) = 2
    /\ cycle.clusters[1] = <<window[1], window[2]>>
    /\ cycle.clusters[2] = <<window[3]>>
    /\ Apart(window[3], cycle.clusters[1], cycle.args.cfg.cell_size)
    /\ cycle.stats[1].pct_elevated = <<50, 1>>
    /\ 1 \in cycle.qualifying
    /\ window[3].leuk = <<>> /\ Counts(window[3])

\* floor(a / size), for a positive size
FloorIndex(a, size) == a \div size

\* C15: the cell of every observation of the analysis set is
\* (floor(latitude / cell_size), floor(longitude / cell_size)), for negative
\* coordinates too; two observations share a cell iff their floored indices
\* are equal, so that the row of cells holding latitude 0 is as high as any
\* other.
C15_GridCellIsFloor ==
    LET size == cycle.args.cfg.cell_size
        Floored(o) == <<FloorIndex(Val(o.lat), size), FloorIndex(Val(o.lng), size)>>
        obs == cycle.filtered
    IN  /\ \A i \in 1..Len(obs) : GridCell(obs[i], size) = Floored(obs[i])
        /\ \A i, j \in 1..Len(obs) :
               (GridCell(obs[i], size) = GridCell(obs[j], size))
                   <=> (Floored(obs[i]) = Floored(obs[j]))

\* the orders in which n observations can be processed
Orders(n) == {p \in [1..n -> 1..n] : \A i, j \in 1..n : p[i] = p[j] => i = j}

\* the groups of a clustering, each as the set of the ids of its members
Groups(clusters) ==
    {{clusters[k][i].id : i \in 1..Len(clusters[k])} : k \in 1..Len(clusters)}

\* C16: whatever the order in which the observations of the analysis set
\* are handed to the clusterer, it groups the same observations together.
C16_ClustersIndependentOfOrder ==
    \A p \in Orders(Len(cycle.filtered)) :
        Groups(Cluster([i \in 1..Len(cycle.filtered) |-> cycle.filtered[p[i]]],
                       cycle.args.cfg.cell_size))
            = Groups(cycle.clusters)

\* C16 witness: three observations in a chain of three rows of cells, the
\* two ends arrived before the middle, in one cluster
C16_Witness ==
    /\ Len(cycle.filtered) = 3
    /\ Len(cycle.clusters) = 1
    /\ GridCell(cycle.filtered[1], cycle.args.cfg.cell_size)[1] = -1
    /\ GridCell(cycle.filtered[2], cycle.args.cfg.cell_size)[1] = 1
    /\ GridCell(cycle.filtered[3], cycle.args.cfg.cell_size)[1] = 0
    /\ Groups(cycle.clusters) = {{1, 2, 3}}

\* p <= q, for two percentages kept as quotients with positive denominators
PctAtMost(p, q) == p[1] * q[2] <= q[1] * p[2]

\* C17: of two clusters of a cycle with the same total_7d, the one with no
\* fewer elevated cases has no lower pct_elevated; and for the total of each
\* cluster, pct_elevated never decreases from one number of elevated cases
\* to the next.
C17_PctElevatedMonotonic ==
    /\ \A j, k \in 1..Len(cycle.stats) :
           (/\ cycle.stats[j].total_7d = cycle.stats[k].total_7d
            /\ cycle.stats[j].elevated_7d <= cycle.stats[k].elevated_7d)
           => PctAtMost(cycle.stats[j].pct_elevated, cycle.stats[k].pct_elevated)
    /\ \A k \in 1..Len(cycle.stats) :
           \A e \in 0..(cycle.stats[k].total_7d - 1) :
               PctAtMost(PctElevated(e, cycle.stats[k].total_7d),
                         PctElevated(e + 1, cycle.stats[k].total_7d))

\* C17 witness: two clusters of 20 cases, with 8 and with 10 elevated, at
\* 40% and at 50%
C17_Witness ==
    /\ Len(cycle.stats) = 2
    /\ cycle.stats[1].total_7d = 20 /\ cycle.stats[2].total_7d = 20
    /\ cycle.stats[1].elevated_7d = 8 /\ cycle.stats[2].elevated_7d = 10
    /\ cycle.stats[1].pct_elevated = <<40, 1>>
    /\ cycle.stats[2].pct_elevated = <<50, 1>>

\* a configuration with a positive cell size and no negative threshold
InRange(c) ==
    c.cell_size > 0 /\ c.min_volume >= 0 /\ c.severity >= 0 /\ c.growth >= 0

\* C18: a configuration handed to the loader is in force iff its cell size
\* is positive and none of its thresholds is negative, and is answered with
\* a configuration error otherwise; every detection cycle ran with one of
\* the configurations in range.
C18_ConfigurationValidatedAtLoad ==
    /\ config.status = "loaded" => InRange(config.cfg)
    /\ config.status = "error" => ~InRange(config.raw)
    /\ config.status \in {"none", "loaded", "error"}
    /\ InRange(cycle.args.cfg)
    /\ cycle # NoCycle => cycle.args.cfg \in {c \in RawConfigs : InRange(c)}

\* C18 witness: cycles have run under a configuration in force, and a
\* configuration with cell size 0 and sound thresholds stands rejected
C18_Witness ==
    /\ config.status = "error"
    /\ config.raw.cell_size = 0
    /\ config.raw.min_volume = 1 /\ config.raw.severity = 40 /\ config.raw.growth = 20
    /\ Len(window) = 2
    /\ cycle.args.W = window
    /\ published.outbreak

(***************************************************************************)
(* Claims about the location updates of a mobile device                    *)
(***************************************************************************)
\* a location, if any, lies inside the zone of the outbreak data
InsideZone(lat, lng, zone) ==
    /\ Len(lat) = 1 /\ Len(lng) = 1
    /\ zone.outbreak
    /\ is_within(lat[1], lng[1], zone.centroid, zone.radius_meters)

\* C19: in_outbreak_zone of the response to a location update tells whether
\* the location reported lies inside the outbreak zone of that moment,
\* wherever the device was before.
C19_ResponseTellsCurrentState ==
    device.updates > 0 =>
        device.response.in_outbreak_zone
            = InsideZone(device.lat, device.lng, device.zone)

\* C19 witness: a device inside the zone at its previous update reports a
\* location inside it again and is told in_outbreak_zone without an alert
C19_Witness ==
    /\ device.updates >= 2
    /\ InsideZone(device.old_lat, device.old_lng, device.zone)
    /\ InsideZone(device.lat, device.lng, device.zone)
    /\ device.response.in_outbreak_zone
    /\ ~device.response.alert_sent

\* C20: on every location update a push alert is sent iff the location
\* reported lies inside the outbreak zone and the location before it did
\* not; the count of the alerts pushed to the device grows by one exactly
\* then, so that it stays as it is while the device stays inside.
C20_PushAlertOnEntryOnly ==
    [][device'.updates = device.updates + 1 =>
          LET entered ==
                  /\ InsideZone(device'.lat, device'.lng, device'.zone)
                  /\ ~InsideZone(device.lat, device.lng, device'.zone)
          IN  /\ device'.response.alert_sent = entered
              /\ device'.pushes = device.pushes + (IF entered THEN 1 ELSE 0)]_vars

\* C20 witness: three updates of a device that entered the zone and stayed
\* inside, with one alert pushed in all
C20_Witness ==
    /\ device.updates = 3
    /\ device.pushes = 1
    /\ InsideZone(device.old_lat, device.old_lng, device.zone)
    /\ InsideZone(device.lat, device.lng, device.zone)
    /\ device.lat # device.old_lat
    /\ ~device.response.alert_sent

(***************************************************************************)
(* SpecPolling: foreground polling of the mobile app (locationService.ts). *)
(* An async function runs up to its next await in one step.  The requests  *)
(* of a timer callback (position, then server) are answered within the     *)
(* step of the callback; the initial check of start is a step of its own,  *)
(* and so is what start does once that check has returned.                 *)
(***************************************************************************)
MaxStarts == 2

MaxTicks == 3

\* a call of startForegroundLocationPolling, suspended at hasPermissions()
StartCall ==
    [pc |-> "hasPermissions", initial |-> "pending", reported |-> "none",
     armed |-> FALSE]

\* the callback handed to start (App.tsx passes onOutbreakDetected)
onLocationUpdate(ls, inZone) ==
    [ls EXCEPT !.callbacks = @ + 1,
               !.lastCallback = IF inZone THEN "true" ELSE "false"]

\* checkOutbreakZone reporting a result only when it differs from the last
checkOutbreakZone_on_change(ls, ok) ==
    IF ok /\ ls.lastCallback # (IF ls.inOutbreakZone THEN "true" ELSE "false")
    THEN onLocationUpdate(ls, ls.inOutbreakZone) ELSE ls

\* checkOutbreakZone: the answer of the server goes to the callback; an
\* error of the position or of the request is logged and nothing is reported
checkOutbreakZone(ls, ok) ==
    IF ok THEN onLocationUpdate(ls, ls.inOutbreakZone) ELSE ls

\* sendLocation: in_outbreak_zone of the response goes to the callback
sendLocation(ls, ok) ==
    IF ok THEN onLocationUpdate(ls, ls.inOutbreakZone) ELSE ls

\* both setInterval calls of start
arm_timers(ls, k) ==
    [ls EXCEPT !.locationPollingInterval = k,
               !.sendTimers = @ \cup {k},
               !.outbreakCheckInterval = k,
               !.checkTimers = @ \cup {k},
               !.calls[k].armed = TRUE]

\* start arming its timers before it awaits the check
start_timers_first(ls, k, granted) ==
    IF ~granted THEN [ls EXCEPT !.calls[k].pc = "threw"]
    ELSE IF ls.isMonitoring THEN [ls EXCEPT !.calls[k].pc = "returned"]
    ELSE arm_timers([ls EXCEPT !.isMonitoring = TRUE,
                               !.calls[k].pc = "checkOutbreakZone"], k)

\* start once hasPermissions() has answered: it throws without permission,
\* returns when monitoring is already on, and otherwise begins its check
start_after_permissions(ls, k, granted) ==
    IF ~granted THEN [ls EXCEPT !.calls[k].pc = "threw"]
    ELSE IF ls.isMonitoring THEN [ls EXCEPT !.calls[k].pc = "returned"]
    ELSE [ls EXCEPT !.isMonitoring = TRUE,
                    !.calls[k].pc = "checkOutbreakZone"]

\* the continuation of a start is due: it runs before any other event
Arming ==
    \E k \in DOMAIN locationService.calls :
        locationService.calls[k].pc = "setInterval"

StartForegroundLocationPolling ==
    /\ Len(locationService.calls) < MaxStarts
    /\ ~Arming
    /\ locationService' = [locationService EXCEPT
            !.calls = Append(@, StartCall), !.stopped = FALSE]
    /\ UNCHANGED <<engineVars, socketService, notificationService, realtimeService,
                   webSocketClient>>

HasPermissionsReturns(k, granted) ==
    /\ locationService.calls[k].pc = "hasPermissions"
    /\ ~Arming
    /\ locationService' = start_after_permissions(locationService, k, granted)
    /\ UNCHANGED <<engineVars, socketService, notificationService, realtimeService,
                   webSocketClient>>

\* await checkOutbreakZone() of start returns
InitialCheckReturns(k, ok) ==
    /\ locationService.calls[k].pc = "checkOutbreakZone"
    /\ ~Arming
    /\ LET after == checkOutbreakZone(locationService, ok)
       IN  locationService' = [after EXCEPT
              !.calls[k].pc = "setInterval",
              !.calls[k].initial =
                  IF ~ok THEN "failed"
                  ELSE IF locationService.inOutbreakZone THEN "inside"
                  ELSE "outside",
              !.calls[k].reported =
                  IF after.callbacks > locationService.callbacks
                  THEN after.lastCallback ELSE "none"]
    /\ UNCHANGED <<engineVars, socketService, notificationService, realtimeService,
                   webSocketClient>>

ArmTimers(k) ==
    /\ locationService.calls[k].pc = "setInterval"
    /\ locationService' =
          [arm_timers(locationService, k) EXCEPT !.calls[k].pc = "returned"]
    /\ UNCHANGED <<engineVars, socketService, notificationService, realtimeService,
                   webSocketClient>>

StopForegroundLocationPolling ==
    /\ ~Arming
    /\ locationService' = [locationService EXCEPT
            !.sendTimers = @ \ {locationService.locationPollingInterval},
            !.locationPollingInterval = 0,
            !.checkTimers = @ \ {locationService.outbreakCheckInterval},
            !.outbreakCheckInterval = 0,
            !.isMonitoring = FALSE,
            !.stopped = TRUE]
    /\ UNCHANGED <<engineVars, socketService, notificationService, realtimeService,
                   webSocketClient>>

\* the interval of LOCATION_UPDATE_INTERVAL fires
SendLocationTick(id, ok) ==
    /\ id \in locationService.sendTimers
    /\ locationService.ticks < MaxTicks
    /\ ~Arming
    /\ locationService' = [sendLocation(locationService, ok) EXCEPT
            !.ticks = @ + 1,
            !.tick = IF ok THEN "sent" ELSE "send failed"]
    /\ UNCHANGED <<engineVars, socketService, notificationService, realtimeService,
                   webSocketClient>>

\* the interval of OUTBREAK_CHECK_INTERVAL fires
CheckTick(id, ok) ==
    /\ id \in locationService.checkTimers
    /\ locationService.ticks < MaxTicks
    /\ ~Arming
    /\ locationService' = [checkOutbreakZone(locationService, ok) EXCEPT
            !.ticks = @ + 1,
            !.tick = IF ok THEN "checked" ELSE "check failed"]
    /\ UNCHANGED <<engineVars, socketService, notificationService, realtimeService,
                   webSocketClient>>

\* the device crosses the boundary of the zone
Move ==
    /\ locationService' = [locationService EXCEPT !.inOutbreakZone = ~@]
    /\ UNCHANGED <<engineVars, socketService, notificationService, realtimeService,
                   webSocketClient>>

NextPolling ==
    \/ StartForegroundLocationPolling
    \/ \E k \in DOMAIN locationService.calls, granted \in BOOLEAN :
          HasPermissionsReturns(k, granted)
    \/ \E k \in DOMAIN locationService.calls, ok \in BOOLEAN :
          InitialCheckReturns(k, ok)
    \/ \E k \in DOMAIN locationService.calls : ArmTimers(k)
    \/ StopForegroundLocationPolling
    \/ \E id \in 1..MaxStarts, ok \in BOOLEAN : SendLocationTick(id, ok)
    \/ \E id \in 1..MaxStarts, ok \in BOOLEAN : CheckTick(id, ok)
    \/ Move

SpecPolling == Init /\ [][NextPolling]_vars

C24_NothingSentAfterStop ==
    [][locationService'.ticks # locationService.ticks
            => ~locationService.stopped]_vars

(***************************************************************************)
(* SpecNotify: urgent alerts of the mobile app (notificationService.ts).   *)
(* Times are in milliseconds.  A notification carries the time its call    *)
(* read at entry (data.timestamp = now.getTime()).                         *)
(***************************************************************************)
MaxAlerts == 3

MaxMinutes == 6

MINUTE_MS == 60 * 1000

NOTIFICATION_COOLDOWN_MS == 5 * 60 * 1000

\* the cooldown test at the entry of sendUrgentOutbreakAlert
InCooldown(ns, t) ==
    /\ Present(ns.lastNotificationTime)
    /\ t - Val(ns.lastNotificationTime) < NOTIFICATION_COOLDOWN_MS

\* sendUrgentOutbreakAlert up to its await: it returns during the cooldown
\* and otherwise asks for the notification to be scheduled
urgent_alert_called(ns) ==
    [ns EXCEPT !.calls = Append(@,
        [pc |-> IF InCooldown(ns, ns.clock) THEN "returned"
                ELSE "scheduleNotificationAsync",
         now |-> ns.clock])]

\* sendUrgentOutbreakAlert after its await: the notification is scheduled
\* and the time of the call becomes lastNotificationTime; an error is
\* logged and leaves lastNotificationTime alone
urgent_alert_scheduled(ns, k, ok) ==
    IF ok
    THEN [ns EXCEPT !.calls[k].pc = "returned",
                    !.scheduled = Append(@, ns.calls[k].now),
                    !.lastNotificationTime = Some(ns.calls[k].now)]
    ELSE [ns EXCEPT !.calls[k].pc = "caught"]

SendUrgentOutbreakAlert ==
    /\ Len(notificationService.calls) < MaxAlerts
    /\ notificationService' = urgent_alert_called(notificationService)
    /\ UNCHANGED <<engineVars, socketService, locationService, realtimeService,
                   webSocketClient>>

ScheduleNotificationReturns(k, ok) ==
    /\ notificationService.calls[k].pc = "scheduleNotificationAsync"
    /\ notificationService' = urgent_alert_scheduled(notificationService, k, ok)
    /\ UNCHANGED <<engineVars, socketService, locationService, realtimeService,
                   webSocketClient>>

\* time passes
Advance(ms) ==
    /\ notificationService.clock + ms <= MaxMinutes * MINUTE_MS
    /\ notificationService' = [notificationService EXCEPT !.clock = @ + ms]
    /\ UNCHANGED <<engineVars, socketService, locationService, realtimeService,
                   webSocketClient>>

NextNotify ==
    \/ SendUrgentOutbreakAlert
    \/ \E k \in DOMAIN notificationService.calls, ok \in BOOLEAN :
          ScheduleNotificationReturns(k, ok)
    \/ \E ms \in {MINUTE_MS, 4 * MINUTE_MS - 1} : Advance(ms)

SpecNotify == Init /\ [][NextNotify]_vars

(***************************************************************************)
(* C23                                                                     *)
(***************************************************************************)
\* C23: any two notifications scheduled by sendUrgentOutbreakAlert are at
\* least NOTIFICATION_COOLDOWN_MS apart, whatever the interleaving of its
\* calls
C23_OneNotificationPerCooldown ==
    \A i, j \in DOMAIN notificationService.scheduled :
        i < j => Abs(notificationService.scheduled[j]
                        - notificationService.scheduled[i])
                    >= NOTIFICATION_COOLDOWN_MS

(***************************************************************************)
(* SpecRealtime: realtime monitoring of the mobile app (realtimeService.ts *)
(* over socketService.ts).  The first send of startLocationMonitoring and  *)
(* every run of its interval are polls: records with the await they are    *)
(* suspended at, the connection status they read, and what they sent.      *)
(***************************************************************************)
MaxPolls == 2

\* socketService.getConnectionStatus
getConnectionStatus(rs) == rs.isConnected

\* a poll, suspended at getCurrentPositionAsync
Poll(kind) ==
    [kind |-> kind, pc |-> "getCurrentPosition", failed |-> "none",
     connected |-> "unread", socket |-> 0, rest |-> 0]

\* socketService.sendLocationUpdate: emits update_location unless there is
\* no socket or it is not connected
socket_sendLocationUpdate(rs, p) ==
    IF ~rs.socket \/ ~rs.isConnected THEN rs
    ELSE [rs EXCEPT !.polls[p].socket = @ + 1]

\* a poll that also goes on to the REST request when the socket is connected
send_position_both(rs, p) ==
    IF getConnectionStatus(rs)
    THEN [socket_sendLocationUpdate(rs, p) EXCEPT
            !.polls[p].connected = "yes",
            !.polls[p].pc = "getDeviceId"]
    ELSE [rs EXCEPT !.polls[p].connected = "no",
                    !.polls[p].pc = "getDeviceId"]

\* a poll with its position: over the socket when it is connected, and
\* otherwise on to the device id for the REST request
send_position(rs, p) ==
    IF getConnectionStatus(rs)
    THEN [socket_sendLocationUpdate(rs, p) EXCEPT
            !.polls[p].connected = "yes",
            !.polls[p].pc = "checkOutbreakZone"]
    ELSE [rs EXCEPT !.polls[p].connected = "no",
                    !.polls[p].pc = "getDeviceId"]

ZoneName(inZone) == IF inZone THEN "true" ELSE "false"

\* a zone status handed to onOutbreakZoneChange whenever it is "inside"
zone_status_while_inside(rs, inZone) ==
    LET answered == [rs EXCEPT !.answers = @ + 1,
                               !.returned = ZoneName(inZone)]
    IN  IF inZone \/ inZone # rs.isInOutbreakZone
        THEN [answered EXCEPT !.isInOutbreakZone = inZone,
                              !.zoneChanges = @ + 1,
                              !.lastZoneCallback = ZoneName(inZone)]
        ELSE answered

\* the zone status of a poll of the interval: a change is recorded and
\* handed to onOutbreakZoneChange
zone_status(rs, inZone) ==
    LET answered == [rs EXCEPT !.answers = @ + 1,
                               !.returned = ZoneName(inZone)]
    IN  IF inZone # rs.isInOutbreakZone
        THEN [answered EXCEPT !.isInOutbreakZone = inZone,
                              !.zoneChanges = @ + 1,
                              !.lastZoneCallback = ZoneName(inZone)]
        ELSE answered

\* notificationService.sendUrgentOutbreakAlert(), not awaited, when a poll
\* of the interval finds the zone entered
urgent_alert_on_entry(rs, ns, inZone) ==
    IF inZone /\ inZone # rs.isInOutbreakZone
    THEN urgent_alert_called(ns) ELSE ns

\* end of startLocationMonitoring: status, callback, local alert, timers
monitoring_started(rs, inZone) ==
    [rs EXCEPT !.isInOutbreakZone = inZone,
               !.zoneChanges = @ + 1,
               !.lastZoneCallback = ZoneName(inZone),
               !.localAlerts = IF inZone THEN @ + 1 ELSE @,
               !.locationInterval = TRUE,
               !.liveIntervals = @ + 1,
               !.pingInterval = IF getConnectionStatus(rs) THEN TRUE ELSE @,
               !.isMonitoring = TRUE]

\* socketService.connect(): a socket is created unless one is connected
SocketConnect ==
    /\ ~(realtimeService.isConnected /\ realtimeService.socket)
    /\ realtimeService' = [realtimeService EXCEPT !.socket = TRUE]
    /\ UNCHANGED <<engineVars, socketService, locationService, notificationService,
                   webSocketClient>>

\* event 'connect' of the socket
SocketConnected ==
    /\ realtimeService.socket
    /\ ~realtimeService.isConnected
    /\ realtimeService' = [realtimeService EXCEPT !.isConnected = TRUE]
    /\ UNCHANGED <<engineVars, socketService, locationService, notificationService,
                   webSocketClient>>

\* event 'disconnect' of the socket: the connection is lost
SocketDropped ==
    /\ realtimeService.isConnected
    /\ realtimeService' = [realtimeService EXCEPT !.isConnected = FALSE]
    /\ UNCHANGED <<engineVars, socketService, locationService, notificationService,
                   webSocketClient>>

\* socketService.disconnect()
SocketDisconnect ==
    /\ realtimeService.socket
    /\ realtimeService' = [realtimeService EXCEPT
            !.socket = FALSE, !.isConnected = FALSE]
    /\ UNCHANGED <<engineVars, socketService, locationService, notificationService,
                   webSocketClient>>

StartLocationMonitoring ==
    /\ ~realtimeService.isMonitoring
    /\ Len(realtimeService.polls) < MaxPolls
    /\ realtimeService' = [realtimeService EXCEPT
            !.polls = Append(@, Poll("start"))]
    /\ UNCHANGED <<engineVars, socketService, locationService, notificationService,
                   webSocketClient>>

\* the interval of the location poll fires
LocationPoll ==
    /\ realtimeService.liveIntervals > 0
    /\ Len(realtimeService.polls) < MaxPolls
    /\ realtimeService' = [realtimeService EXCEPT
            !.polls = Append(@, Poll("poll"))]
    /\ UNCHANGED <<engineVars, socketService, locationService, notificationService,
                   webSocketClient>>

\* getCurrentPositionAsync answers, or throws
PositionReturns(p, ok) ==
    /\ realtimeService.polls[p].pc = "getCurrentPosition"
    /\ realtimeService' =
          IF ok THEN send_position(realtimeService, p)
          ELSE [realtimeService EXCEPT !.polls[p].pc = "caught",
                                       !.polls[p].failed = "position"]
    /\ UNCHANGED <<engineVars, socketService, locationService, notificationService,
                   webSocketClient>>

\* getDeviceId answers and the REST request is made, or it throws
DeviceIdReturns(p, ok) ==
    /\ realtimeService.polls[p].pc = "getDeviceId"
    /\ realtimeService' =
          IF ok THEN [realtimeService EXCEPT
                        !.polls[p].rest = @ + 1,
                        !.polls[p].pc = "sendLocationUpdate"]
          ELSE [realtimeService EXCEPT !.polls[p].pc = "caught",
                                       !.polls[p].failed = "device id"]
    /\ UNCHANGED <<engineVars, socketService, locationService, notificationService,
                   webSocketClient>>

\* apiService.sendLocationUpdate answers with in_outbreak_zone, or throws
RestReturns(p, ok, inZone) ==
    /\ realtimeService.polls[p].pc = "sendLocationUpdate"
    /\ IF ~ok
       THEN /\ realtimeService' = [realtimeService EXCEPT
                    !.polls[p].pc = "caught", !.polls[p].failed = "request"]
            /\ notificationService' = notificationService
       ELSE IF realtimeService.polls[p].kind = "start"
       THEN /\ realtimeService' = [realtimeService EXCEPT
                    !.polls[p].pc = "checkOutbreakZone"]
            /\ notificationService' = notificationService
       ELSE /\ realtimeService' = [zone_status(realtimeService, inZone) EXCEPT
                    !.polls[p].pc = "checkOutbreakZone"]
            /\ notificationService' = urgent_alert_on_entry(
                    realtimeService, notificationService, inZone)
    /\ UNCHANGED <<engineVars, socketService, locationService, webSocketClient>>

\* apiService.checkOutbreakZone answers, or throws
ZoneCheckReturns(p, ok, inZone) ==
    /\ realtimeService.polls[p].pc = "checkOutbreakZone"
    /\ IF ~ok
       THEN /\ realtimeService' = [realtimeService EXCEPT
                    !.polls[p].pc = "caught", !.polls[p].failed = "check"]
            /\ notificationService' = notificationService
       ELSE IF realtimeService.polls[p].kind = "start"
       THEN /\ realtimeService' =
                    [monitoring_started(realtimeService, inZone) EXCEPT
                        !.polls[p].pc = "done"]
            /\ notificationService' = notificationService
       ELSE /\ realtimeService' = [zone_status(realtimeService, inZone) EXCEPT
                    !.polls[p].pc = "done"]
            /\ notificationService' = urgent_alert_on_entry(
                    realtimeService, notificationService, inZone)
    /\ UNCHANGED <<engineVars, socketService, locationService, webSocketClient>>

StopLocationMonitoring ==
    /\ realtimeService.isMonitoring \/ realtimeService.locationInterval
    /\ realtimeService' = [realtimeService EXCEPT
            !.liveIntervals = IF realtimeService.locationInterval
                              THEN @ - 1 ELSE @,
            !.locationInterval = FALSE,
            !.pingInterval = FALSE,
            !.isMonitoring = FALSE]
    /\ UNCHANGED <<engineVars, socketService, locationService, notificationService,
                   webSocketClient>>

\* the handler of outbreak_alert registered by initialize: the alert is
\* shown by sendLocalOutbreakAlert(true)
OutbreakAlertOnSocket(a) ==
    /\ realtimeService.isConnected
    /\ a \notin realtimeService.viaSocket
    /\ realtimeService' = [realtimeService EXCEPT
            !.viaSocket = @ \cup {a},
            !.isInOutbreakZone = TRUE,
            !.presented[a] = @ + 1]
    /\ UNCHANGED <<engineVars, socketService, locationService, notificationService,
                   webSocketClient>>

\* a push notification of the alert arrives: the notification handler has
\* it shown (shouldShowAlert: true)
PushNotificationArrives(a) ==
    /\ a \notin realtimeService.viaPush
    /\ realtimeService' = [realtimeService EXCEPT
            !.viaPush = @ \cup {a},
            !.presented[a] = @ + 1]
    /\ UNCHANGED <<engineVars, socketService, locationService, notificationService,
                   webSocketClient>>

NextRealtime ==
    \/ SocketConnect
    \/ SocketConnected
    \/ SocketDropped
    \/ SocketDisconnect
    \/ StartLocationMonitoring
    \/ LocationPoll
    \/ \E p \in DOMAIN realtimeService.polls, ok \in BOOLEAN :
          PositionReturns(p, ok)
    \/ \E p \in DOMAIN realtimeService.polls, ok \in BOOLEAN :
          DeviceIdReturns(p, ok)
    \/ \E p \in DOMAIN realtimeService.polls, ok, inZone \in BOOLEAN :
          RestReturns(p, ok, inZone)
    \/ \E p \in DOMAIN realtimeService.polls, ok, inZone \in BOOLEAN :
          ZoneCheckReturns(p, ok, inZone)
    \/ StopLocationMonitoring
    \/ \E a \in AlertIds : OutbreakAlertOnSocket(a)

SpecRealtime == Init /\ [][NextRealtime]_vars

(***************************************************************************)
(* SpecAlerts: the alerts reaching the mobile app, as outbreak_alert       *)
(* events of the socket and as push notifications                          *)
(***************************************************************************)
NextAlerts ==
    \/ SocketConnect
    \/ SocketConnected
    \/ SocketDropped
    \/ SocketDisconnect
    \/ \E a \in AlertIds : OutbreakAlertOnSocket(a)
    \/ \E a \in AlertIds : PushNotificationArrives(a)

SpecAlerts == Init /\ [][NextAlerts]_vars

C27_AlertPresentedAtMostOnce ==
    \A a \in AlertIds : realtimeService.presented[a] <= 1

(***************************************************************************)
(* SpecWebSocket: the web client (WebSocketClient of websocket-client.js,  *)
(* part_004, and the polling timer of ui-utils.js).  The socket is created *)
(* by connect() and goes CONNECTING, OPEN, CLOSING, CLOSED; its message    *)
(* events are delivered while it is OPEN.                                  *)
(***************************************************************************)
MaxMessages == 2

MaxHeartbeats == 1

MaxPollTicks == 2

WEBSOCKET_reconnectAttempts == 10

\* what the server sends: the three types the page knows, a type it does
\* not know, a ping, and text that is not JSON
Messages ==
    {"ping", "new_observation", "outbreak_alert", "refresh_data", "unknown",
     "not JSON"}

\* connect(): a new socket
connect(wc) == [wc EXCEPT !.ws = "CONNECTING"]

\* handleOpen(): connected, counter reset, heartbeat interval replaced
handleOpen(wc) ==
    [wc EXCEPT !.isConnected = TRUE,
               !.reconnectAttempts = 0,
               !.heartbeatInterval = TRUE,
               !.heartbeatLive = TRUE]

\* handleMessage(event) going on to the callback after the pong
handleMessage_without_return(wc, m) ==
    IF m = "not JSON" THEN wc
    ELSE [(IF m = "ping" /\ wc.ws = "OPEN" THEN [wc EXCEPT !.pongs = @ + 1]
           ELSE wc) EXCEPT !.forwarded = Append(@, m)]

\* handleMessage(event)
handleMessage(wc, m) ==
    IF m = "not JSON" THEN wc
    ELSE IF m = "ping"
    THEN IF wc.ws = "OPEN" THEN [wc EXCEPT !.pongs = @ + 1] ELSE wc
    ELSE [wc EXCEPT !.forwarded = Append(@, m)]

\* handleClose() letting a reconnect be scheduled at the limit as well
handleClose_at_limit(wc) ==
    LET closed == [wc EXCEPT !.isConnected = FALSE,
                             !.heartbeatInterval = FALSE,
                             !.heartbeatLive = FALSE]
    IN  IF wc.reconnectAttempts <= WEBSOCKET_reconnectAttempts
        THEN [closed EXCEPT !.reconnectAttempts = @ + 1,
                            !.reconnectTimer = TRUE]
        ELSE closed

\* handleClose(): not connected, heartbeat cleared, and a reconnect is
\* scheduled while attempts remain
handleClose(wc) ==
    LET closed == [wc EXCEPT !.isConnected = FALSE,
                             !.heartbeatInterval = FALSE,
                             !.heartbeatLive = FALSE]
    IN  IF wc.reconnectAttempts < WEBSOCKET_reconnectAttempts
        THEN [closed EXCEPT !.reconnectAttempts = @ + 1,
                            !.reconnectTimer = TRUE]
        ELSE closed

\* isConnectedToServer()
isConnectedToServer(wc) == wc.isConnected

\* disconnect(): the heartbeat interval is cleared (its handle is kept) and
\* the socket, if any, is closed
disconnect(wc) ==
    [wc EXCEPT !.heartbeatLive = IF wc.heartbeatInterval THEN FALSE ELSE @,
               !.ws = IF wc.ws \in {"CONNECTING", "OPEN"} THEN "CLOSING"
                      ELSE @,
               !.disconnected = TRUE]

\* a polling callback that reloads while the socket is connected
polling_tick_when_connected(wc) ==
    IF isConnectedToServer(wc)
    THEN [wc EXCEPT !.reloads = @ + 1, !.lastTick = "reload"]
    ELSE [wc EXCEPT !.lastTick = "skip"]

\* the callback of setupPollingFallback
polling_tick(wc) ==
    IF ~isConnectedToServer(wc)
    THEN [wc EXCEPT !.reloads = @ + 1, !.lastTick = "reload"]
    ELSE [wc EXCEPT !.lastTick = "skip"]

\* no attempt is left and none is pending
Exhausted(wc) ==
    /\ wc.reconnectAttempts = WEBSOCKET_reconnectAttempts
    /\ wc.ws = "CLOSED"
    /\ ~wc.reconnectTimer

\* initialize() of the page: the client is created and connects, and the
\* polling timer is set up
InitializePage ==
    /\ webSocketClient.ws = "null"
    /\ ~webSocketClient.pollingInterval
    /\ webSocketClient' =
          [connect(webSocketClient) EXCEPT !.pollingInterval = TRUE]
    /\ UNCHANGED <<engineVars, socketService, locationService, notificationService,
                   realtimeService>>

\* onopen
SocketOpens ==
    /\ webSocketClient.ws = "CONNECTING"
    /\ webSocketClient' = handleOpen([webSocketClient EXCEPT !.ws = "OPEN"])
    /\ UNCHANGED <<engineVars, socketService, locationService, notificationService,
                   realtimeService>>

\* onclose: the connection failed, was lost, or was closed
SocketCloses ==
    /\ webSocketClient.ws \in {"CONNECTING", "OPEN", "CLOSING"}
    /\ webSocketClient' = handleClose([webSocketClient EXCEPT !.ws = "CLOSED"])
    /\ UNCHANGED <<engineVars, socketService, locationService, notificationService,
                   realtimeService>>

\* the timeout of handleClose fires
ReconnectTimerFires ==
    /\ webSocketClient.reconnectTimer
    /\ webSocketClient' =
          connect([webSocketClient EXCEPT !.reconnectTimer = FALSE])
    /\ UNCHANGED <<engineVars, socketService, locationService, notificationService,
                   realtimeService>>

\* the heartbeat interval fires
HeartbeatTick ==
    /\ webSocketClient.heartbeatLive
    /\ webSocketClient.ws = "OPEN"
    /\ webSocketClient.heartbeats < MaxHeartbeats
    /\ webSocketClient' = [webSocketClient EXCEPT !.heartbeats = @ + 1]
    /\ UNCHANGED <<engineVars, socketService, locationService, notificationService,
                   realtimeService>>

\* onmessage
ReceiveMessage(m) ==
    /\ webSocketClient.ws = "OPEN"
    /\ webSocketClient.received < MaxMessages
    /\ webSocketClient' = [handleMessage(webSocketClient, m) EXCEPT
            !.received = @ + 1, !.message = m]
    /\ UNCHANGED <<engineVars, socketService, locationService, notificationService,
                   realtimeService>>

Disconnect ==
    /\ webSocketClient.ws # "null"
    /\ ~webSocketClient.disconnected
    /\ webSocketClient' = disconnect(webSocketClient)
    /\ UNCHANGED <<engineVars, socketService, locationService, notificationService,
                   realtimeService>>

\* the polling timer fires
PollingTick ==
    /\ webSocketClient.pollingInterval
    /\ webSocketClient.pollTicks < MaxPollTicks
    /\ webSocketClient' = [polling_tick(webSocketClient) EXCEPT
            !.pollTicks = @ + 1,
            !.lastTick = IF Exhausted(webSocketClient) /\ @ = "reload"
                         THEN "reload after exhaustion" ELSE @]
    /\ UNCHANGED <<engineVars, socketService, locationService, notificationService,
                   realtimeService>>

NextWebSocket ==
    \/ InitializePage
    \/ SocketOpens
    \/ SocketCloses
    \/ ReconnectTimerFires
    \/ HeartbeatTick
    \/ \E m \in Messages : ReceiveMessage(m)
    \/ Disconnect
    \/ PollingTick

SpecWebSocket == Init /\ [][NextWebSocket]_vars

(***************************************************************************)
(* C26                                                                     *)
(***************************************************************************)
\* C26: a tick of the polling timer reloads the heatmap data if and only if
\* the client is not connected at that tick (isConnectedToServer() is
\* false): it reloads while the socket is connecting or closed and leaves
\* the data alone while the socket is open; once the reconnect attempts are
\* exhausted this stays so, and every tick reloads
C26_PollingReloadsIffNotConnected ==
    [][/\ webSocketClient'.pollTicks = webSocketClient.pollTicks + 1
            => /\ webSocketClient'.reloads = webSocketClient.reloads + 1
                    <=> ~webSocketClient.isConnected
               /\ webSocketClient'.reloads = webSocketClient.reloads
                    <=> webSocketClient.isConnected
               /\ webSocketClient.ws = "OPEN"
                    => webSocketClient'.reloads = webSocketClient.reloads
               /\ webSocketClient.ws \in {"CONNECTING", "CLOSED"}
                    => webSocketClient'.reloads = webSocketClient.reloads + 1
               /\ Exhausted(webSocketClient)
                    => webSocketClient'.reloads = webSocketClient.reloads + 1
       /\ Exhausted(webSocketClient) => Exhausted(webSocketClient')]_vars

\* with the socket open a tick left the data alone; the connection was
\* lost, ten reconnects failed, and the tick after that reloaded
C26_Witness ==
    /\ Exhausted(webSocketClient)
    /\ webSocketClient.pollTicks = 2
    /\ webSocketClient.reloads = 1
    /\ webSocketClient.lastTick = "reload after exhaustion"

(***************************************************************************)
(* C28                                                                     *)
(***************************************************************************)
\* C28: the counter of reconnects never exceeds 10; a reconnect is scheduled
\* by a close only while the counter is below 10, and counts as one more;
\* every open of the socket resets the counter to 0; and once 10 attempts
\* in a row have failed (the counter is 10 and the socket closed) no
\* connect is scheduled or made any more
C28_ReconnectsBounded ==
    [][/\ webSocketClient'.reconnectAttempts <= WEBSOCKET_reconnectAttempts
       /\ (~webSocketClient.reconnectTimer /\ webSocketClient'.reconnectTimer)
            => /\ webSocketClient.reconnectAttempts
                    < WEBSOCKET_reconnectAttempts
               /\ webSocketClient'.reconnectAttempts
                    = webSocketClient.reconnectAttempts + 1
       /\ (webSocketClient.ws # "OPEN" /\ webSocketClient'.ws = "OPEN")
            => webSocketClient'.reconnectAttempts = 0
       /\ (/\ webSocketClient.reconnectAttempts
                = WEBSOCKET_reconnectAttempts
           /\ ~webSocketClient.reconnectTimer
           /\ webSocketClient.ws = "CLOSED")
            => /\ ~webSocketClient'.reconnectTimer
               /\ webSocketClient'.ws = "CLOSED"
               /\ webSocketClient'.reconnectAttempts
                    = WEBSOCKET_reconnectAttempts]_vars

\* the tenth reconnect has failed and nothing is pending
C28_Witness ==
    /\ Exhausted(webSocketClient)
    /\ ~webSocketClient.disconnected

(***************************************************************************)
(* C29                                                                     *)
(***************************************************************************)
\* C29: once disconnect() has been called, no reconnect is scheduled, no
\* socket is created and no heartbeat is sent
C29_StaysDisconnected ==
    [][webSocketClient.disconnected
            => /\ webSocketClient.reconnectTimer
                    \/ ~webSocketClient'.reconnectTimer
               /\ webSocketClient'.ws # "CONNECTING"
                    \/ webSocketClient.ws = "CONNECTING"
               /\ webSocketClient'.heartbeats = webSocketClient.heartbeats]_vars

(***************************************************************************)
(* C30                                                                     *)
(***************************************************************************)
\* C30: a message event with a ping is answered with one pong and hands
\* nothing to onMessage; a message event with any other message that parses
\* hands that message to onMessage once and sends no pong; no ping is ever
\* among the messages handed over
C30_PingAnsweredOthersForwarded ==
    [][/\ webSocketClient'.received = webSocketClient.received + 1
            => /\ webSocketClient'.message = "ping"
                    => /\ webSocketClient'.pongs = webSocketClient.pongs + 1
                       /\ webSocketClient'.forwarded
                            = webSocketClient.forwarded
               /\ webSocketClient'.message \notin {"ping", "not JSON"}
                    => /\ webSocketClient'.pongs = webSocketClient.pongs
                       /\ webSocketClient'.forwarded
                            = Append(webSocketClient.forwarded,
                                     webSocketClient'.message)
       /\ \A i \in DOMAIN webSocketClient'.forwarded :
            webSocketClient'.forwarded[i] # "ping"]_vars

\* a ping was answered and an alert handed to the page
C30_Witness ==
    /\ webSocketClient.received = 2
    /\ webSocketClient.pongs = 1
    /\ webSocketClient.forwarded = <<"outbreak_alert">>

(***************************************************************************)
(* C33                                                                     *)
(***************************************************************************)
\* C33, as stated: when a poll of the interval is answered a zone status,
\* onOutbreakZoneChange is invoked only if the status differs from the
\* stored isInOutbreakZone, sendUrgentOutbreakAlert is requested only on a
\* change from outside to inside, and a status equal to the one answered
\* before it triggers neither
C33_SameStatusTriggersNothing ==
    [][realtimeService'.answers = realtimeService.answers + 1
        => /\ realtimeService'.zoneChanges # realtimeService.zoneChanges
                => realtimeService'.returned
                        # ZoneName(realtimeService.isInOutbreakZone)
           /\ notificationService' # notificationService
                => /\ ~realtimeService.isInOutbreakZone
                   /\ realtimeService'.returned = "true"
           /\ realtimeService'.returned = realtimeService.returned
                => /\ realtimeService'.zoneChanges
                        = realtimeService.zoneChanges
                   /\ notificationService' = notificationService]_vars

\* C33, amended: when a poll of the interval is answered a zone status,
\* onOutbreakZoneChange is invoked (once, with that status) only if the
\* status differs from the stored isInOutbreakZone, sendUrgentOutbreakAlert
\* is requested only on a change from outside to inside, and a status equal
\* to the stored one triggers neither; a status equal to the one answered
\* before it can still differ from the stored one, which an outbreak_alert
\* sets to true in between
C33_OnlyChangesTrigger ==
    [][realtimeService'.answers = realtimeService.answers + 1
        => /\ realtimeService'.zoneChanges # realtimeService.zoneChanges
                => /\ realtimeService'.returned
                        # ZoneName(realtimeService.isInOutbreakZone)
                   /\ realtimeService'.zoneChanges
                        = realtimeService.zoneChanges + 1
                   /\ realtimeService'.lastZoneCallback
                        = realtimeService'.returned
           /\ notificationService' # notificationService
                => /\ ~realtimeService.isInOutbreakZone
                   /\ realtimeService'.returned = "true"
           /\ realtimeService'.returned
                = ZoneName(realtimeService.isInOutbreakZone)
                => /\ realtimeService'.zoneChanges
                        = realtimeService.zoneChanges
                   /\ notificationService' = notificationService]_vars

\* a poll has been answered "inside" twice: the first answer was reported
\* and an urgent alert requested, the second triggered nothing
C33_Witness ==
    /\ realtimeService.answers = 2
    /\ realtimeService.returned = "true"
    /\ realtimeService.isInOutbreakZone
    /\ realtimeService.zoneChanges = 2
    /\ realtimeService.lastZoneCallback = "true"
    /\ realtimeService.viaSocket = {}
    /\ Len(notificationService.calls) = 1
    /\ Len(realtimeService.polls) = 2
    /\ realtimeService.polls[1].pc = "done"
    /\ realtimeService.polls[2].pc = "done"

(***************************************************************************)
(* C34                                                                     *)
(***************************************************************************)
\* C34: once monitoring has handed a status to onOutbreakZoneChange, the
\* value last passed to the callback equals isInOutbreakZone, also after an
\* outbreak_alert event of the socket
C34_CallbackTracksFlag ==
    realtimeService.lastZoneCallback # "none"
        => realtimeService.lastZoneCallback
                = ZoneName(realtimeService.isInOutbreakZone)

(***************************************************************************)
(* SpecSocket: the Socket.IO client of the mobile app (socketService.ts).  *)
(* connect() is a process with one await, of getDeviceId(); the promise it *)
(* returns is settled by the handlers it registers on the socket it        *)
(* created.  A socket keeps trying: one attempt to open and then           *)
(* reconnectionAttempts more, each failure a 'connect_error'; after a      *)
(* 'disconnect' of the transport it tries reconnectionAttempts times.  A   *)
(* socket that was replaced by a later connect() is not closed and keeps   *)
(* delivering its events to the handlers, which act on this.socket.  An    *)
(* event emitted on a socket that is not connected is buffered by the      *)
(* library and sent when the socket connects, before the 'connect' event.  *)
(***************************************************************************)
\* this.socket.emit(e): e is the first event of the connection unless
\* another one was emitted on it before
emit(ss, e) ==
    [ss EXCEPT !.sockets[ss.socket].first = IF @ = "none" THEN e ELSE @,
               !.sockets[ss.socket].authenticated =
                    @ \/ e = "authenticate"]

\* authenticate(): nothing without a socket or a user id
socket_authenticate(ss) ==
    IF ss.socket = 0 \/ ~ss.userId THEN ss ELSE emit(ss, "authenticate")

\* resolve(r) of the promise that connect() returned for socket s; a promise
\* that is settled stays as it is
resolve(ss, s, r, how) ==
    [ss EXCEPT !.calls = [c \in SocketIds |->
        IF ss.calls[c].pc = "pending" /\ ss.calls[c].socket = s
        THEN [ss.calls[c] EXCEPT !.pc = "done", !.result = r, !.how = how]
        ELSE ss.calls[c]]]

\* connect(), up to the await of getDeviceId()
connect_called(ss) ==
    LET c == ss.called + 1 IN
    IF ss.isConnected /\ ss.socket # 0
    THEN [ss EXCEPT !.called = c,
                    !.calls[c] = [pc |-> "done", socket |-> 0,
                                  result |-> "true", how |-> "at once"]]
    ELSE [ss EXCEPT !.called = c, !.calls[c].pc = "getDeviceId"]

\* connect(), after getDeviceId(): the socket is created and its handlers
\* registered, or the exception is caught and false returned
connect_with_id(ss, c, ok) ==
    LET s == ss.created + 1 IN
    IF ok
    THEN [ss EXCEPT !.userId = TRUE,
                    !.created = s,
                    !.socket = s,
                    !.sockets[s] = [state |-> "connecting",
                                    attempts |-> 0,
                                    budget |-> 1 + maxReconnectAttempts,
                                    first |-> "none",
                                    authenticated |-> FALSE],
                    !.calls[c] = [pc |-> "pending", socket |-> s,
                                  result |-> "none", how |-> "none"]]
    ELSE [ss EXCEPT !.calls[c] = [pc |-> "done", socket |-> 0,
                                  result |-> "false", how |-> "thrown"]]

\* the handlers of 'connect', in the order of their registration: the one of
\* setupEventListeners, then the one of connect()
on_connect(ss, s) ==
    LET a == [ss EXCEPT !.sockets[s].state = "connected",
                        !.sockets[s].attempts = 0,
                        !.sockets[s].authenticated = FALSE,
                        !.isConnected = TRUE,
                        !.reconnectAttempts = 0]
    IN  resolve(socket_authenticate(a), s, "true", "connect")

\* the handler of 'connect_error'; the manager gives up after its last attempt
on_connect_error(ss, s) ==
    LET n == ss.sockets[s].attempts + 1
        a == [ss EXCEPT !.sockets[s].attempts = n,
                        !.sockets[s].state =
                            IF n >= ss.sockets[s].budget THEN "failed" ELSE @,
                        !.reconnectAttempts = @ + 1]
    IN  IF a.reconnectAttempts >= maxReconnectAttempts
        THEN resolve(a, s, "false", "errors")
        ELSE a

\* the handler of 'disconnect' when the transport is lost: the socket starts
\* to reconnect
on_disconnect(ss, s) ==
    [ss EXCEPT !.sockets[s] = [state |-> "connecting",
                               attempts |-> 0,
                               budget |-> maxReconnectAttempts,
                               first |-> "none",
                               authenticated |-> FALSE],
               !.isConnected = FALSE,
               !.drops = @ + 1]

\* disconnect(): the current socket is closed for good and forgotten
socket_disconnect(ss) ==
    IF ss.socket = 0 THEN ss
    ELSE [ss EXCEPT !.sockets[ss.socket].state = "closed",
                    !.socket = 0,
                    !.isConnected = FALSE]

\* sendLocationUpdate()
sendLocationUpdate(ss) ==
    IF ss.socket = 0 \/ ~ss.isConnected
    THEN [ss EXCEPT !.lastSend = "dropped"]
    ELSE [emit(ss, "update_location") EXCEPT !.lastSend = "sent"]

ServiceConnect ==
    /\ socketService.called < MaxConnects
    /\ socketService' = connect_called(socketService)
    /\ UNCHANGED <<engineVars, locationService, notificationService,
                   realtimeService, webSocketClient>>

GetDeviceIdReturns(c, ok) ==
    /\ socketService.calls[c].pc = "getDeviceId"
    /\ socketService' = connect_with_id(socketService, c, ok)
    /\ UNCHANGED <<engineVars, locationService, notificationService,
                   realtimeService, webSocketClient>>

OnConnect(s) ==
    /\ socketService.sockets[s].state = "connecting"
    /\ socketService' = on_connect(socketService, s)
    /\ UNCHANGED <<engineVars, locationService, notificationService,
                   realtimeService, webSocketClient>>

OnConnectError(s) ==
    /\ socketService.sockets[s].state = "connecting"
    /\ socketService' = on_connect_error(socketService, s)
    /\ UNCHANGED <<engineVars, locationService, notificationService,
                   realtimeService, webSocketClient>>

OnDisconnect(s) ==
    /\ socketService.sockets[s].state = "connected"
    /\ socketService.drops < MaxDrops
    /\ socketService' = on_disconnect(socketService, s)
    /\ UNCHANGED <<engineVars, locationService, notificationService,
                   realtimeService, webSocketClient>>

ServiceDisconnect ==
    /\ socketService' = socket_disconnect(socketService)
    /\ UNCHANGED <<engineVars, locationService, notificationService,
                   realtimeService, webSocketClient>>

SendLocationUpdate ==
    /\ socketService' = sendLocationUpdate(socketService)
    /\ UNCHANGED <<engineVars, locationService, notificationService,
                   realtimeService, webSocketClient>>

NextSocket ==
    \/ ServiceConnect
    \/ \E c \in SocketIds, ok \in BOOLEAN : GetDeviceIdReturns(c, ok)
    \/ \E s \in SocketIds : OnConnect(s)
    \/ \E s \in SocketIds : OnConnectError(s)
    \/ \E s \in SocketIds : OnDisconnect(s)
    \/ ServiceDisconnect
    \/ SendLocationUpdate

SpecSocket == Init /\ [][NextSocket]_vars

(***************************************************************************)
(* C31                                                                     *)
(***************************************************************************)
\* C31: every 'connect' event of a socket, reconnections included, makes the
\* service emit 'authenticate' on that socket, and no 'update_location' is
\* emitted on a connection before its 'authenticate'
C31_AuthenticateBeforeLocation ==
    [][\A s \in SocketIds :
        /\ (/\ socketService.sockets[s].state = "connecting"
            /\ socketService'.sockets[s].state = "connected")
                => socketService'.sockets[s].authenticated
        /\ socketService'.sockets[s].first \in {"none", "authenticate"}]_vars

(***************************************************************************)
(* C32                                                                     *)
(***************************************************************************)
\* C32: the promise of connect() is settled in the end, so while it is
\* pending its socket is still trying to connect and will deliver the
\* 'connect' or the 'connect_error' that settles it; a promise settled by a
\* 'connect' is true, one settled by the count of 5 errors is false, and a
\* call made while connected returns true at once without a new socket
C32_ConnectPromiseSettles ==
    \A c \in SocketIds :
        LET call == socketService.calls[c] IN
        /\ call.pc = "pending"
            => socketService.sockets[call.socket].state = "connecting"
        /\ call.how = "connect" => call.result = "true"
        /\ call.how = "errors" => call.result = "false"
        /\ call.how = "at once" => call.result = "true" /\ call.socket = 0

====
